---------------------------- MODULE Spec2Model ----------------------------
(***************************************************************************)
(* Predictive outbound dialer core (telebook-backend): agent state machine,*)
(* dialer cycle, event demultiplexer, persistence sink, queue refill.      *)
(* The state is the Redis keyspace of voice_orchestrator/redis.py, the     *)
(* lead store (dialer/models.py), the channels the switch holds and the    *)
(* local variables of the workers that run the tasks.                      *)
(***************************************************************************)
EXTENDS Integers, Sequences, FiniteSets, TLC

(***************************************************************************)
(* Bounds of the model.                                                    *)
(***************************************************************************)
NAgents == 2
NLeads == 2
MaxCalls == 3
NWorkers == 2
MaxTime == 2
NHandlers == 1
NRefills == 2
MaxRepeats == 1
\* The inbound calls that reach the IVR's park point.
MaxInbound == 2
\* The longest priority bucket the operations called one by one build.
MaxBucket == 2
\* The largest dial multiplier a pass is run with.
MaxMultiplier == 3

(***************************************************************************)
(* Program constants.                                                      *)
(***************************************************************************)
\* Python's None, for an agent id, a call id, a lead id or a timestamp.
None == -1
\* The sentinel agent id of the shared acquisition list.
AcqKey == 0
\* The reaper's limit for an agent that is busy with no call, in seconds.
ReaperLimit == 90
\* One step of the clock, in seconds.
ClockStep == 100
\* DEFAULT_PICKUP_RATIO = 0.3, so dial_multiplier = max(1, int(1/0.3)) = 3.
DialMultiplier == 3

Agents == 1 .. NAgents
Leads == 1 .. NLeads
CallIds == 1 .. MaxCalls
Workers == 1 .. NWorkers
Teams == {"sales", "secondary_sales", "support"}
\* SALES_AGENT_QUEUE, SUPPORT_AGENT_QUEUE, SECONDARY_SALES_AGENT_QUEUE.
QueueKeys == {"sales", "support", "secondary_sales"}

(***************************************************************************)
(* Sequences as the Redis sorted sets and lists.                           *)
(***************************************************************************)
RECURSIVE SeqRemove(_, _)
SeqRemove(s, x) ==
    IF s = <<>> THEN <<>>
    ELSE IF Head(s) = x THEN SeqRemove(Tail(s), x)
    ELSE <<Head(s)>> \o SeqRemove(Tail(s), x)

SeqHas(s, x) == \E i \in 1 .. Len(s) : s[i] = x

SeqCount(s, x) == Cardinality({i \in 1 .. Len(s) : s[i] = x})

\* zadd with NX: a member already in the set keeps its score and its place.
ZAddNX(s, x) == IF SeqHas(s, x) THEN s ELSE Append(s, x)

\* zadd(key, {member: time.time()}): a new member goes to the back, and a
\* member already in the set gets the latest score, so it moves to the back.
ZAdd(s, x) == Append(SeqRemove(s, x), x)

\* zrem(key, member).
ZRem(s, x) == SeqRemove(s, x)


(***************************************************************************)
(* The state.                                                              *)
(***************************************************************************)
VARIABLES
    agentStates,      \* AGENT_STATES: agent id -> state row, NoRow when absent
    idleQueue,        \* the three idle sorted sets, each in score order
    activeCalls,      \* ACTIVE_CALLS: call uuid -> record, NoRec when absent
    completedCalls,   \* COMPLETED_CALLS, a list
    priorityMapping,  \* AGENT_PRIORITY_LEAD_MAPPING: key -> list of entries
    leadMapping,      \* AGENT_LEAD_MAPPING: key -> list of entries
    acqAgents,        \* AQUISITION_AGENTS
    waitingQueue,     \* the two customer waiting lists
    dialerLock,       \* dialer:execution_lock is set
    syncLock,         \* SYNC_TO_DB_LOCK is set
    queueLock,        \* holder of each "<QUEUE>:lock", 0 when free
    leadStatus,       \* lead store: Lead.status
    lastCallDate,     \* lead store: Lead.last_call_date
    callLogs,         \* lead store: the CallLog rows, by call_id
    channels,         \* the switch: call uuid -> channel
    events,           \* the switch's event stream, not yet dispatched
    now,              \* the clock, in seconds
    tick,             \* the workers that run initiate_dialer_cycle
    refill,           \* the workers that run refill_queue
    handler,          \* the event handlers in progress
    drains,           \* the sync_to_db tasks scheduled or running
    hist              \* history of the run, read by the properties only

vars == <<agentStates, idleQueue, activeCalls, completedCalls, priorityMapping,
          leadMapping, acqAgents, waitingQueue, dialerLock, syncLock, queueLock,
          leadStatus, lastCallDate, callLogs, channels, events, now, tick,
          refill, handler, drains, hist>>

redisAgents == <<agentStates, idleQueue>>
redisCalls == <<activeCalls, completedCalls>>
redisLeads == <<priorityMapping, leadMapping, acqAgents>>
leadStore == <<leadStatus, lastCallDate, callLogs>>
switch == <<channels, events>>

(***************************************************************************)
(* Agent state machine (events/utils.py).                                  *)
(***************************************************************************)
\* An agent's row of AGENT_STATES. busy_since is history: the time of the
\* last mark-busy; the code neither writes nor reads it.
NoRow == [state |-> "logged_out", current_call_id |-> None, team |-> "none",
          call_initiated_at |-> None, busy_since |-> None]

RowOf(st, a) == IF a \in DOMAIN st THEN st[a] ELSE NoRow

\* The idle queue the state machine uses for a row: the sales queue for team
\* sales, the support queue for every other team.
queue_key(row) == IF row.team = "sales" THEN "sales" ELSE "support"

\* A is [st, q]: the agent rows and the idle queues. ok: the per-agent lock
\* was acquired within blocking_timeout. Each result is [st, q, ret].
mark_agent_logged_in_cache(A, a, team, ok) ==
    IF ~ok THEN [st |-> A.st, q |-> A.q, ret |-> FALSE]
    ELSE LET old == A.st[a]
             row == IF old = NoRow
                    THEN [NoRow EXCEPT !.state = "idle", !.team = team]
                    ELSE [old EXCEPT !.state = "idle", !.current_call_id = None]
         IN [st |-> [A.st EXCEPT ![a] = row],
             q |-> [A.q EXCEPT ![queue_key(row)] = ZAdd(@, a)],
             ret |-> TRUE]

mark_agent_idle_in_cache(A, a, ok) ==
    IF ~ok \/ RowOf(A.st, a) = NoRow THEN [st |-> A.st, q |-> A.q, ret |-> FALSE]
    ELSE LET row == [A.st[a] EXCEPT !.state = "idle", !.current_call_id = None]
         IN [st |-> [A.st EXCEPT ![a] = row],
             q |-> [A.q EXCEPT ![queue_key(row)] = ZAdd(@, a)],
             ret |-> TRUE]

\* mark busy as an upsert: no check of the lock or of the row.
mark_agent_busy_upsert(A, a, call_id, ok) ==
    LET row == [RowOf(A.st, a) EXCEPT !.state = "busy", !.current_call_id = call_id,
                                      !.busy_since = now]
    IN [st |-> [A.st EXCEPT ![a] = row],
        q |-> [A.q EXCEPT ![queue_key(row)] = ZRem(@, a)],
        ret |-> TRUE]

mark_agent_busy_in_cache(A, a, call_id, ok) ==
    IF ~ok \/ RowOf(A.st, a) = NoRow THEN [st |-> A.st, q |-> A.q, ret |-> FALSE]
    ELSE LET row == [A.st[a] EXCEPT !.state = "busy", !.current_call_id = call_id,
                                    !.busy_since = now]
         IN [st |-> [A.st EXCEPT ![a] = row],
             q |-> [A.q EXCEPT ![queue_key(row)] = ZRem(@, a)],
             ret |-> TRUE]

remove_agent_from_cache(A, a, ok) ==
    IF ~ok \/ RowOf(A.st, a) = NoRow THEN [st |-> A.st, q |-> A.q, ret |-> FALSE]
    ELSE [st |-> [A.st EXCEPT ![a] = NoRow],
          q |-> [A.q EXCEPT ![queue_key(A.st[a])] = ZRem(@, a)],
          ret |-> TRUE]

\* The idle check without its checks: every agent passes.
is_agent_idle_unchecked(st, a, check_call_id, check_state, ok) == TRUE

is_agent_idle_in_cache(st, a, check_call_id, check_state, ok) ==
    /\ ok
    /\ RowOf(st, a) # NoRow
    /\ check_state => RowOf(st, a).state = "idle"
    /\ check_call_id => RowOf(st, a).current_call_id = None

get_all_idle_agents_in_cache(st, check_call_id, check_state) ==
    {a \in DOMAIN st :
        /\ st[a] # NoRow
        /\ check_state => st[a].state = "idle"
        /\ check_call_id => st[a].current_call_id = None}

handle_free_agent(A, a, ok) == mark_agent_idle_in_cache(A, a, ok)

\* The agents whose membership of an idle queue differs between q1 and q2.
QueueChanges(q1, q2) ==
    {a \in Agents : \E k \in QueueKeys : SeqHas(q1[k], a) # SeqHas(q2[k], a)}

\* zpopmin(key, count=1) of get_next_available_*_agent: [agent, q], the agent
\* None when the set is empty.
get_next_available_agent(q, key) ==
    IF q[key] = <<>> THEN [agent |-> None, q |-> q]
    ELSE [agent |-> Head(q[key]), q |-> [q EXCEPT ![key] = Tail(@)]]

get_next_available_sales_agent(q) == get_next_available_agent(q, "sales")
get_next_available_support_agent(q) == get_next_available_agent(q, "support")
get_next_available_secondary_sales_agent(q) ==
    get_next_available_agent(q, "secondary_sales")

\* zrange(key, 0, 0).
peek_next_available_sales_agent(q) ==
    IF q["sales"] = <<>> THEN None ELSE Head(q["sales"])

remove_agent_from_sales_queue(q, a) == [q EXCEPT !["sales"] = ZRem(@, a)]
add_sales_agent_to_queue(q, a) == [q EXCEPT !["sales"] = ZAdd(@, a)]

(***************************************************************************)
(* Leads, queue entries and call records (dialer/utils.py, dialer/models). *)
(***************************************************************************)
\* The campaigns of the lead store: the last lead belongs to an acquisition
\* campaign assigned to the last agent, every other lead to a campaign of
\* segment active assigned to agent 1.
campaign_segment(l) == hist.camp[l].segment
campaign_agent(l) == hist.camp[l].agent

\* segment_order of refill_queue: the Case/When that ranks the campaigns.
Segments == <<"follow_up", "active", "growth", "active_churn", "growth_churn",
              "acquisition">>
segment_rank(seg) == CHOOSE i \in DOMAIN Segments : Segments[i] = seg

\* construct_queue_object: the snapshot of a lead. lead_id is the key
\* "lead_id" of the entry; nested is the lead id found under its key
\* "payload", which only a re-enqueued call record has.
construct_queue_object(l) == [lead_id |-> l, nested |-> None]

\* The lead an entry is a snapshot of.
LeadOf(e) == IF e.lead_id # None THEN e.lead_id ELSE e.nested

\* The keys of the two lead mappings: the agents, "0" and str(None).
MappingKeys == Agents \cup {AcqKey, None}

NoRec == [call_uuid |-> None, agent_id |-> None, lead_id |-> None,
          nested |-> None, initiated_at |-> "none"]

\* The record make_outbound_call_helper stores: payload is a copy of the
\* entry, initiated_at is timezone.now().isoformat(), a string.
call_record(c, agent_id, e) ==
    [call_uuid |-> c, agent_id |-> IF agent_id = AcqKey THEN None ELSE agent_id,
     lead_id |-> e.lead_id, nested |-> LeadOf(e), initiated_at |-> "iso"]

\* hangup re-enqueues call_details, the whole record, not its payload: the
\* entry has no key "lead_id", the lead is under its key "payload".
requeue_entry(rec) == [lead_id |-> None, nested |-> rec.nested]

\* add_active_call_in_cache: hset, whatever is there.
add_active_call_in_cache(calls, c, rec) == [calls EXCEPT ![c] = rec]

\* remove_active_call with the hdel left out of the transaction, as in
\* remove_active_call_in_cache: the record is read and stays.
remove_active_call_without_hdel(calls, c) ==
    [details |-> calls[c], calls |-> calls]

\* remove_active_call: hget and hdel in one transaction; [details, calls].
remove_active_call(calls, c) ==
    [details |-> calls[c], calls |-> [calls EXCEPT ![c] = NoRec]]

\* update_active_call_in_cache: hget, and hset only when a record is there.
update_active_call_in_cache(calls, c, agent_id) ==
    IF calls[c] = NoRec THEN calls
    ELSE [calls EXCEPT ![c].agent_id = agent_id]

\* add_to_priority_queue_mapping(agent_id, entry). ok: the queue lock was
\* acquired. "agent_id in queue_mapping" compares agent_id with the JSON
\* keys, which are strings: None is never among them, so the bucket of
\* str(None) is replaced, not appended to.
add_to_priority_queue_mapping(pm, agent_id, entry, ok) ==
    IF ~ok THEN pm
    ELSE IF agent_id # None /\ pm[agent_id] # <<>>
         THEN [pm EXCEPT ![agent_id] = Append(@, entry)]
         ELSE [pm EXCEPT ![agent_id] = <<entry>>]

(***************************************************************************)
(* The lead store and the hangup-cause mapping (events/utils.py).          *)
(***************************************************************************)
\* FS_TO_DJANGO_STATUS.get(hangup_cause); "none" for a cause it lacks.
map_call_status(cause) ==
    CASE cause = "NORMAL_CLEARING" -> "answered"
      [] cause \in {"USER_BUSY", "CALL_REJECTED"} -> "busy"
      [] cause \in {"NO_ANSWER", "NO_USER_RESPONSE", "PROGRESS_TIMEOUT"} -> "no_answer"
      [] cause \in {"RECOVERY_ON_TIMER", "LOSE_RACE"} -> "failed"
      [] cause = "ORIGINATOR_CANCEL" -> "cancelled"
      [] cause \in {"UNALLOCATED_NUMBER", "INVALID_NUMBER_FORMAT",
                    "NO_ROUTE_DESTINATION"} -> "invalid"
      [] OTHER -> "none"

\* The lead status sync_to_db gives for a call status; "none": no update.
lead_status_for(call_status) ==
    CASE call_status = "answered" -> "completed"
      [] call_status \in {"no_answer", "busy"} -> "not_answered"
      [] call_status = "invalid" -> "invalid"
      [] OTHER -> "none"

\* The hangup causes the switch gives a channel that ends by itself.
RingCauses == {"NO_ANSWER"}
TalkCauses == {"NORMAL_CLEARING"}

(***************************************************************************)
(* The switch (voice_orchestrator/freeswitch.py is the command channel).   *)
(***************************************************************************)
\* A channel: agent_id and auto_bridge are the headers X-agent_id and
\* X-auto_bridge of the originate, park whether its application is &park
\* rather than &bridge, ivr the variable ivr_choice of an inbound call (0:
\* none), transferor the agent that transferred the call away, peer the
\* agent the switch bridged the
\* call to, cause the hangup cause of an ended channel, repeats the number
\* of times its hangup event was delivered again.
NoChan == [state |-> "free", dir |-> "none", agent_id |-> None,
           auto_bridge |-> FALSE, park |-> FALSE, peer |-> None,
           cause |-> "none", repeats |-> 0, ivr |-> 0, transferor |-> None]

Live(ch) == ch.state \in {"ringing", "answered", "bridged", "parked"}

\* uuid.uuid4(): a uuid no call has had; the model takes the smallest.
FreeIds == {c \in CallIds : channels[c].state = "free"}
NewUuid == CHOOSE c \in FreeIds : \A d \in FreeIds : c <= d

Event(type, c, cause) == [type |-> type, uuid |-> c, cause |-> cause]

\* uuid_kill <uuid> <cause>: a live channel ends with that cause and the
\* switch emits its CHANNEL_HANGUP_COMPLETE; S is [ch, ev].
disconnect_call(S, c, cause) ==
    IF Live(S.ch[c])
    THEN [ch |-> [S.ch EXCEPT ![c].state = "ended", ![c].cause = cause],
          ev |-> Append(S.ev, Event("CHANNEL_HANGUP_COMPLETE", c, cause))]
    ELSE S

(***************************************************************************)
(* Initial state: an empty Redis, no lead uploaded, no channel.            *)
(***************************************************************************)
IdleTick == [pc |-> "idle", pass |-> "none", todo |-> <<>>, map |-> <<>>,
             agent |-> None, left |-> <<>>, n |-> 0, call |-> None,
             removed |-> FALSE, dialed |-> FALSE, start |-> 0,
             m |-> DialMultiplier]
IdleRefill == [pc |-> "idle", sel |-> {}]
IdleHandler == [pc |-> "idle", ev |-> Event("none", None, "none"),
                details |-> NoRec, agent_id |-> None]
Handlers == 1 .. NHandlers
\* The last operation called by itself and what it returned: ok is whether
\* its lock was acquired, ret its truth value, got the agent a pop returned.
NoCall == [op |-> "none", agent |-> None, team |-> "none", ok |-> TRUE,
           ret |-> FALSE, got |-> None]

\* A refill_queue in progress: slot w is the call a tick of worker w makes
\* itself, the slots above NWorkers are the tasks sent with apply_async.
SyncSlots == Workers
AsyncSlots == (NWorkers + 1) .. (NWorkers + NRefills)
RefillSlots == SyncSlots \cup AsyncSlots

Init ==
    /\ agentStates = [a \in Agents |-> NoRow]
    /\ idleQueue = [k \in QueueKeys |-> <<>>]
    /\ activeCalls = [c \in CallIds |-> NoRec]
    /\ completedCalls = <<>>
    /\ priorityMapping = [k \in MappingKeys |-> <<>>]
    /\ leadMapping = [has |-> {}, q |-> [k \in MappingKeys |-> <<>>]]
    /\ acqAgents = {}
    /\ waitingQueue = [k \in {"support", "secondary_sales"} |-> <<>>]
    /\ dialerLock = FALSE
    /\ syncLock = FALSE
    /\ queueLock = [k \in {"priority", "leads"} |-> 0]
    /\ leadStatus = [l \in Leads |-> "absent"]
    /\ lastCallDate = [l \in Leads |-> None]
    /\ callLogs = [c \in CallIds |-> 0]
    /\ channels = [c \in CallIds |-> NoChan]
    /\ events = <<>>
    /\ now = 0
    /\ tick = [w \in Workers |-> IdleTick]
    /\ refill = [s \in RefillSlots |-> IdleRefill]
    /\ handler = [h \in Handlers |-> IdleHandler]
    /\ drains = [scheduled |-> 0, running |-> FALSE, batch |-> <<>>, seen |-> {}]
    /\ hist = [pushes |-> [c \in CallIds |-> 0],
               hangups |-> [c \in CallIds |-> 0],
               acquired |-> {},
               drained |-> {},
               noop |-> FALSE,
               dialed |-> {},
               raceLost |-> {},
               lockless |-> {},
               last |-> NoCall,
               idleOrder |-> <<>>,
               loggedOut |-> {},
               skipped |-> {}, reaped |-> {}, booked |-> {},
               failed |-> {},
               camp |-> [l \in Leads |->
                            [segment |-> IF l = NLeads THEN "acquisition" ELSE "active",
                             agent |-> IF l = NLeads THEN NAgents ELSE 1]],
               merged |-> 0]

(***************************************************************************)
(* The agents' and the administrator's operations.                         *)
(***************************************************************************)
Agent == [st |-> agentStates, q |-> idleQueue]

\* mark_agent_logged_in_cache(agent_id, team), from agent_login.
Login(a, team, ok) ==
    LET r == mark_agent_logged_in_cache(Agent, a, team, ok)
    IN /\ agentStates' = r.st
       /\ idleQueue' = r.q
       /\ hist' = [hist EXCEPT !.loggedOut = IF r.ret THEN @ \ {a} ELSE @]
       /\ UNCHANGED <<redisCalls, redisLeads, waitingQueue, dialerLock, syncLock,
                      queueLock, leadStore, switch, now, tick, refill, handler,
                      drains>>

\* remove_agent_from_cache(agent_id). hist.loggedOut: the agents whose last
\* successful login or logout is a logout.
Logout(a, ok) ==
    LET r == remove_agent_from_cache(Agent, a, ok)
    IN /\ agentStates[a] # NoRow
       /\ agentStates' = r.st
       /\ idleQueue' = r.q
       /\ hist' = [hist EXCEPT !.loggedOut = IF r.ret THEN @ \cup {a} ELSE @]
       /\ UNCHANGED <<redisCalls, redisLeads, waitingQueue, dialerLock, syncLock,
                      queueLock, leadStore, switch, now, tick, refill, handler,
                      drains>>

\* The administrative surface stores a lead: Lead.status defaults to pending.
UploadLead(l) ==
    /\ leadStatus[l] = "absent"
    /\ leadStatus' = [leadStatus EXCEPT ![l] = "pending"]
    /\ UNCHANGED <<redisAgents, redisCalls, redisLeads, waitingQueue, dialerLock,
                   syncLock, queueLock, lastCallDate, callLogs, switch, now, tick,
                   refill, handler, drains, hist>>

\* A lead is uploaded to a campaign of segment seg assigned to agent a.
\* hist.camp: the campaign of every lead; without this step the last lead is
\* of an acquisition campaign of the last agent and the others of an active
\* campaign of agent 1.
UploadLeadTo(l, seg, a) ==
    /\ leadStatus[l] = "absent"
    /\ leadStatus' = [leadStatus EXCEPT ![l] = "pending"]
    /\ hist' = [hist EXCEPT !.camp[l] = [segment |-> seg, agent |-> a]]
    /\ UNCHANGED <<redisAgents, redisCalls, redisLeads, waitingQueue, dialerLock,
                   syncLock, queueLock, lastCallDate, callLogs, switch, now, tick,
                   refill, handler, drains>>

\* Time passes.
Clock ==
    /\ now < MaxTime * ClockStep
    /\ now' = now + ClockStep
    /\ UNCHANGED <<redisAgents, redisCalls, redisLeads, waitingQueue, dialerLock,
                   syncLock, queueLock, leadStore, switch, tick, refill, handler,
                   drains, hist>>

(***************************************************************************)
(* The operations of the agent state machine and of the priority mapping,  *)
(* called one by one with any arguments, the lock acquired or not. hist    *)
(* keeps the call and its result, and the order of the agents' last        *)
(* transitions to idle.                                                    *)
(***************************************************************************)
Called(op, a, team, ok, ret, got) ==
    [op |-> op, agent |-> a, team |-> team, ok |-> ok, ret |-> ret, got |-> got]

\* The order of the last transitions to idle, after one more by agent a.
IdleAgain(order, a) == Append(SelectSeq(order, LAMBDA x : x # a), a)

DoLogin(a, team, ok) ==
    LET r == mark_agent_logged_in_cache(Agent, a, team, ok)
    IN /\ agentStates' = r.st
       /\ idleQueue' = r.q
       /\ hist' = [hist EXCEPT
                      !.last = Called("login", a, team, ok, r.ret, None),
                      !.idleOrder = IF r.ret THEN IdleAgain(@, a) ELSE @]
       /\ UNCHANGED <<redisCalls, redisLeads, waitingQueue, dialerLock, syncLock,
                      queueLock, leadStore, switch, now, tick, refill, handler,
                      drains>>

DoMarkIdle(a, ok) ==
    LET r == mark_agent_idle_in_cache(Agent, a, ok)
    IN /\ agentStates' = r.st
       /\ idleQueue' = r.q
       /\ hist' = [hist EXCEPT
                      !.last = Called("mark_idle", a, "none", ok, r.ret, None),
                      !.idleOrder = IF r.ret THEN IdleAgain(@, a) ELSE @]
       /\ UNCHANGED <<redisCalls, redisLeads, waitingQueue, dialerLock, syncLock,
                      queueLock, leadStore, switch, now, tick, refill, handler,
                      drains>>

DoMarkBusy(a, call_id, ok) ==
    LET r == mark_agent_busy_in_cache(Agent, a, call_id, ok)
    IN /\ agentStates' = r.st
       /\ idleQueue' = r.q
       /\ hist' = [hist EXCEPT
                      !.last = Called("mark_busy", a, "none", ok, r.ret, None)]
       /\ UNCHANGED <<redisCalls, redisLeads, waitingQueue, dialerLock, syncLock,
                      queueLock, leadStore, switch, now, tick, refill, handler,
                      drains>>

DoLogout(a, ok) ==
    LET r == remove_agent_from_cache(Agent, a, ok)
    IN /\ agentStates' = r.st
       /\ idleQueue' = r.q
       /\ hist' = [hist EXCEPT
                      !.last = Called("logout", a, "none", ok, r.ret, None)]
       /\ UNCHANGED <<redisCalls, redisLeads, waitingQueue, dialerLock, syncLock,
                      queueLock, leadStore, switch, now, tick, refill, handler,
                      drains>>

\* add_to_priority_queue_mapping(agent_id, entry) has no return statement:
\* it returns None whether it stored the entry or not.
DoEnqueue(a, l, ok) ==
    /\ Len(priorityMapping[a]) < MaxBucket
    /\ priorityMapping' =
           add_to_priority_queue_mapping(priorityMapping, a,
                                         construct_queue_object(l), ok)
    /\ hist' = [hist EXCEPT !.last = Called("enqueue", a, "none", ok, FALSE, None)]
    /\ UNCHANGED <<redisAgents, redisCalls, leadMapping, acqAgents, waitingQueue,
                   dialerLock, syncLock, queueLock, leadStore, switch, now, tick,
                   refill, handler, drains>>

\* get_next_available_sales_agent, _support_agent or _secondary_sales_agent.
DoNextAvailable(team) ==
    LET r == CASE team = "sales" -> get_next_available_sales_agent(idleQueue)
               [] team = "support" -> get_next_available_support_agent(idleQueue)
               [] OTHER -> get_next_available_secondary_sales_agent(idleQueue)
    IN /\ idleQueue' = r.q
       /\ hist' = [hist EXCEPT
                      !.last = Called("next_available", None, team, TRUE,
                                      r.agent # None, r.agent)]
       /\ UNCHANGED <<agentStates, redisCalls, redisLeads, waitingQueue, dialerLock,
                      syncLock, queueLock, leadStore, switch, now, tick, refill,
                      handler, drains>>

(***************************************************************************)
(* The dialer cycle (dialer/tasks.py): initiate_dialer_cycle, one step per *)
(* Redis or switch round trip that another worker can see.                 *)
(***************************************************************************)
RECURSIVE SetToSeq(_)
SetToSeq(S) ==
    IF S = {} THEN <<>>
    ELSE LET x == CHOOSE y \in S : \A z \in S : y <= z
         IN <<x>> \o SetToSeq(S \ {x})

Min(a, b) == IF a <= b THEN a ELSE b

\* acquire_dialer_lock: set(DIALER_LOCK_KEY, '1', ex=..., nx=True).
acquire_dialer_lock(lock) == [lock |-> TRUE, ret |-> ~lock]

\* release_dialer_lock: delete(DIALER_LOCK_KEY), whoever set the key.
release_dialer_lock(lock) == FALSE

\* validate_and_cleanup_agent_states, for the agents of todo in turn: a busy
\* agent whose current_call_id is no key of ACTIVE_CALLS, or that has no
\* call and a call_initiated_at older than 90 s, is handled as free.
RECURSIVE validate_and_cleanup_agent_states(_, _, _)
validate_and_cleanup_agent_states(A, calls, todo) ==
    IF todo = <<>> THEN A
    ELSE LET a == Head(todo)
             row == A.st[a]
             orphan == /\ row.state = "busy"
                       /\ \/ /\ row.current_call_id # None
                             /\ calls[row.current_call_id] = NoRec
                          \/ /\ row.current_call_id = None
                             /\ row.call_initiated_at # None
                             /\ now - row.call_initiated_at > ReaperLimit
             r == IF orphan THEN handle_free_agent(A, a, TRUE) ELSE A
         IN validate_and_cleanup_agent_states([st |-> r.st, q |-> r.q], calls,
                                              Tail(todo))

\* The try of initiate_dialer_cycle up to the lock: a tick that does not get
\* the lock returns 'skipped' from inside the try, so its finally runs too.
TickStart(w) ==
    LET r == acquire_dialer_lock(dialerLock)
    IN /\ tick[w].pc = "idle"
       /\ dialerLock' = r.lock
       /\ tick' = [tick EXCEPT ![w] = [IdleTick EXCEPT
                      !.pc = IF r.ret THEN "reap" ELSE "release",
                      !.start = now]]
       /\ hist' = [hist EXCEPT !.acquired = IF r.ret THEN @ \cup {w} ELSE @]
       /\ UNCHANGED <<redisAgents, redisCalls, redisLeads, waitingQueue, syncLock,
                      queueLock, leadStore, switch, now, refill, handler, drains>>

\* The agents busy with a call still live at the switch that are no longer
\* busy in st.
ReapedLive(st) ==
    {a \in Agents : /\ agentStates[a].state = "busy"
                    /\ agentStates[a].current_call_id # None
                    /\ Live(channels[agentStates[a].current_call_id])
                    /\ st[a].state # "busy"}

\* validate_and_cleanup_agent_states(), then the capacity check.
\* hist.reaped: the agents the reaper marked idle while their call was live.
TickReap(w) ==
    LET r == validate_and_cleanup_agent_states(Agent, activeCalls,
                                               SetToSeq(Agents))
        capacity == Cardinality(get_all_idle_agents_in_cache(r.st, TRUE, TRUE))
    IN /\ tick[w].pc = "reap"
       /\ agentStates' = r.st
       /\ idleQueue' = r.q
       /\ tick' = [tick EXCEPT ![w].pc =
                      IF capacity <= 0 THEN "release" ELSE "priority"]
       /\ hist' = [hist EXCEPT !.reaped = @ \cup ReapedLive(r.st)]
       /\ UNCHANGED <<redisCalls, redisLeads, waitingQueue, dialerLock, syncLock,
                      queueLock, leadStore, switch, now, refill, handler, drains>>

\* process_priority_queue up to its loop: the queue lock, then the mapping.
TickPriority(w) ==
    LET keys == {k \in MappingKeys : priorityMapping[k] # <<>>}
    IN /\ tick[w].pc = "priority"
       /\ queueLock["priority"] = 0
       /\ IF keys = {}
          THEN /\ tick' = [tick EXCEPT ![w].pc = "secondary"]
               /\ UNCHANGED queueLock
          ELSE /\ tick' = [tick EXCEPT ![w].pc = "loop", ![w].pass = "priority",
                              ![w].map = priorityMapping,
                              ![w].todo = SetToSeq(keys), ![w].dialed = FALSE]
               /\ queueLock' = [queueLock EXCEPT !["priority"] = w]
       /\ UNCHANGED <<redisAgents, redisCalls, redisLeads, waitingQueue, dialerLock,
                      syncLock, leadStore, switch, now, refill, handler, drains,
                      hist>>

\* process_secondary_queue up to its loop; m is the dial_multiplier it
\* computes from the pickup ratio, max(1, int(1 / pickup_ratio)).
TickSecondary(w, m) ==
    /\ tick[w].pc = "secondary"
    /\ queueLock["leads"] = 0
    /\ IF leadMapping.has = {}
       THEN /\ tick' = [tick EXCEPT ![w].pc = "acquisition"]
            /\ UNCHANGED queueLock
       ELSE /\ tick' = [tick EXCEPT ![w].pc = "loop", ![w].pass = "secondary",
                           ![w].map = leadMapping.q,
                           ![w].todo = SetToSeq(leadMapping.has),
                           ![w].dialed = FALSE, ![w].m = m]
            /\ queueLock' = [queueLock EXCEPT !["leads"] = w]
    /\ UNCHANGED <<redisAgents, redisCalls, redisLeads, waitingQueue, dialerLock,
                   syncLock, leadStore, switch, now, refill, handler, drains, hist>>

\* process_aquisition_queue up to its loop: the idle acquisition agents, the
\* queue lock, the dial multiplier m, the shared list under key "0".
TickAcquisition(w, m) ==
    LET avail == {a \in acqAgents :
                    is_agent_idle_in_cache(agentStates, a, TRUE, TRUE, TRUE)}
        leads == leadMapping.q[AcqKey]
    IN /\ tick[w].pc = "acquisition"
       /\ avail # {} => queueLock["leads"] = 0
       /\ IF avail = {} \/ leadMapping.has = {} \/ leads = <<>>
          THEN /\ tick' = [tick EXCEPT ![w].pc = "refillcheck"]
               /\ UNCHANGED queueLock
          ELSE /\ tick' = [tick EXCEPT ![w].pc = "loop", ![w].pass = "acquisition",
                              ![w].left = leads, ![w].todo = SetToSeq(avail),
                              ![w].dialed = FALSE, ![w].m = m]
               /\ queueLock' = [queueLock EXCEPT !["leads"] = w]
       /\ UNCHANGED <<redisAgents, redisCalls, redisLeads, waitingQueue, dialerLock,
                      syncLock, leadStore, switch, now, refill, handler, drains,
                      hist>>

\* calls_to_make of the pass: 1 for the priority queue, the dial multiplier
\* m for the other two.
calls_to_make(pass, m) == IF pass = "priority" THEN 1 ELSE m

\* make_outbound_call_helper: auto_bridge = calls_to_make == 1 and
\* park = calls_to_make > 1; the acquisition helper passes park=True,
\* auto_bridge=False.
auto_bridge(pass, m) == pass # "acquisition" /\ calls_to_make(pass, m) = 1
park(pass, m) == pass = "acquisition" \/ calls_to_make(pass, m) > 1

\* The two stores that end a pass. The priority pass stores with
\* hset(AGENT_PRIORITY_LEAD_MAPPING, mapping=...), but the key holds the
\* string add_to_priority_queue_mapping set: Redis answers WRONGTYPE, the
\* call raises and the mapping stays as it was.
store_priority_mapping(pm, map) == pm
store_lead_mapping(lm, map) == [has |-> lm.has, q |-> map]
store_acquisition_leads(lm, left) == [lm EXCEPT !.q[AcqKey] = left]

\* The end of a pass: "return calls_dialed". calls_dialed is bound only once
\* the helper has returned; unbound, the return raises, out of the pass and
\* into the except of initiate_dialer_cycle, which ends the tick.
after_pass(pass, dialed) ==
    CASE pass = "priority" -> IF dialed THEN "secondary" ELSE "release"
      [] pass = "secondary" -> IF dialed THEN "acquisition" ELSE "release"
      [] OTHER -> "refillcheck"

\* One lock name for all three passes.
leads_lock(pass) == "leads"

queue_lock_of(pass) == IF pass = "priority" THEN "priority" ELSE "leads"

\* The pass leaves its try block through an exception: the priority pass at
\* its hset, the secondary pass at "return calls_dialed" when it dialed
\* nothing.
pass_raises(pass, dialed) ==
    pass = "priority" \/ (pass = "secondary" /\ ~dialed)

\* A release written as the last statement of the try block: an exception
\* skips it.
release_at_return(ql, k, w, raised) ==
    IF ql[k] = w /\ ~raised THEN [ql EXCEPT ![k] = 0] ELSE ql

\* finally: if queue_lock.owned(): queue_lock.release(), whether the pass
\* returned or raised.
release_queue_lock(ql, k, w, raised) ==
    IF ql[k] = w THEN [ql EXCEPT ![k] = 0] ELSE ql

\* One turn of the pass's loop over the agents, or its end. hist.skipped:
\* the keys the priority pass in progress has passed over at its idle
\* check, each with whether the agent lock was acquired.
TickLoop(w) ==
    LET t == tick[w]
        k == Head(t.todo)
        eligible ==
            IF t.pass = "acquisition" THEN TRUE
            ELSE /\ t.map[k] # <<>>
                 /\ t.pass = "secondary" => k # AcqKey
                 /\ is_agent_idle_in_cache(agentStates, k, TRUE, TRUE, TRUE)
        leads == IF t.pass = "acquisition" THEN t.left ELSE t.map[k]
    IN /\ t.pc = "loop"
       /\ IF t.todo = <<>>
          THEN /\ priorityMapping' =
                      IF t.pass = "priority"
                      THEN store_priority_mapping(priorityMapping, t.map)
                      ELSE priorityMapping
               /\ leadMapping' =
                      CASE t.pass = "secondary" -> store_lead_mapping(leadMapping, t.map)
                        [] t.pass = "acquisition" ->
                               store_acquisition_leads(leadMapping, t.left)
                        [] OTHER -> leadMapping
               /\ queueLock' = release_queue_lock(queueLock, queue_lock_of(t.pass), w,
                                                  pass_raises(t.pass, t.dialed))
               /\ tick' = [tick EXCEPT ![w] = [IdleTick EXCEPT
                              !.pc = after_pass(t.pass, t.dialed),
                              !.start = t.start]]
               /\ hist' = [hist EXCEPT !.skipped =
                              IF t.pass = "priority" THEN {} ELSE @]
          ELSE /\ tick' = [tick EXCEPT ![w] =
                      IF eligible
                      THEN [t EXCEPT !.pc = "orig", !.agent = k, !.left = leads,
                                     !.n = Min(calls_to_make(t.pass, t.m), Len(leads)),
                                     !.removed = FALSE, !.todo = Tail(t.todo)]
                      ELSE [t EXCEPT !.todo = Tail(t.todo)]]
               /\ hist' = [hist EXCEPT !.skipped =
                              IF t.pass = "priority" /\ t.map[k] # <<>> /\ ~eligible
                              THEN @ \cup {<<k, TRUE>>} ELSE @]
               /\ UNCHANGED <<priorityMapping, leadMapping, queueLock>>
       /\ UNCHANGED <<redisAgents, redisCalls, acqAgents, waitingQueue, dialerLock,
                      syncLock, leadStore, switch, now, refill, handler, drains>>

\* One turn of the loop of the priority or of the secondary pass while the
\* lock of the agent stays held for the whole blocking_timeout:
\* is_agent_idle_in_cache logs the error and returns False.
TickLoopLockTimeout(w) ==
    LET t == tick[w]
        k == Head(t.todo)
    IN /\ t.pc = "loop"
       /\ t.pass \in {"priority", "secondary"}
       /\ t.todo # <<>>
       /\ t.map[k] # <<>>
       /\ t.pass = "secondary" => k # AcqKey
       /\ ~is_agent_idle_in_cache(agentStates, k, TRUE, TRUE, FALSE)
       /\ tick' = [tick EXCEPT ![w].todo = Tail(t.todo)]
       /\ hist' = [hist EXCEPT !.skipped =
                      IF t.pass = "priority" THEN @ \cup {<<k, FALSE>>} ELSE @]
       /\ UNCHANGED <<redisAgents, redisCalls, redisLeads, waitingQueue, dialerLock,
                      syncLock, queueLock, leadStore, switch, now, refill, handler,
                      drains>>

\* The helper has returned (calls_dialed, list(lead_queue)) to the pass.
helper_return(t) ==
    [t EXCEPT !.pc = "loop", !.dialed = TRUE, !.call = None, !.n = 0,
              !.map = IF t.pass = "acquisition" THEN t.map
                      ELSE [t.map EXCEPT ![t.agent] = t.left]]

\* originate_call: bgapi answered "+OK", the switch holds the new channel.
\* X-agent_id is the agent of the pass, none in the acquisition pass; with
\* auto_bridge the switch rings the agent itself, &bridge(user/<ext>).
\* hist.booked: the originates that succeeded in the ticks in progress, each
\* with its worker, the agent it was made for, its pass, its call, the lead
\* snapshot dialed and the dial multiplier of the pass.
originate_call(ch, c, agent_id, ab, pk) ==
    [ch EXCEPT ![c] = [NoChan EXCEPT !.state = "ringing", !.dir = "outbound",
                                     !.agent_id = agent_id, !.auto_bridge = ab,
                                     !.park = pk]]

\* The helper's loop: its end, or the originate of the lead at the head.
TickOriginate(w) ==
    LET t == tick[w]
        hdr == IF t.pass = "acquisition" THEN None ELSE t.agent
    IN /\ t.pc = "orig"
       /\ IF t.n = 0
          THEN /\ tick' = [tick EXCEPT ![w] = helper_return(t)]
               /\ UNCHANGED channels
          ELSE /\ FreeIds # {}
               /\ channels' = originate_call(channels, NewUuid, hdr,
                                             auto_bridge(t.pass, t.m),
                                             park(t.pass, t.m))
               /\ tick' = [tick EXCEPT ![w].call = NewUuid,
                              ![w].pc = IF t.removed THEN "book" ELSE "mark"]
       /\ hist' = [hist EXCEPT !.booked =
                      IF t.n = 0 THEN @
                      ELSE @ \cup {[w |-> w, agent |-> t.agent, pass |-> t.pass,
                                    call |-> NewUuid, lead |-> Head(t.left),
                                    m |-> t.m]}]
       /\ UNCHANGED <<redisAgents, redisCalls, redisLeads, waitingQueue, dialerLock,
                      syncLock, queueLock, leadStore, events, now, refill, handler,
                      drains>>

\* originate_call returned (False, None): the lead stays at the head.
\* hist.failed: the originates that failed in the ticks in progress.
TickOriginateFails(w) ==
    /\ tick[w].pc = "orig"
    /\ tick[w].n > 0
    /\ tick' = [tick EXCEPT ![w].n = @ - 1]
    /\ hist' = [hist EXCEPT !.failed = @ \cup
                   {[w |-> w, agent |-> tick[w].agent, pass |-> tick[w].pass,
                     lead |-> Head(tick[w].left)]}]
    /\ UNCHANGED <<redisAgents, redisCalls, redisLeads, waitingQueue, dialerLock,
                   syncLock, queueLock, leadStore, switch, now, refill, handler,
                   drains>>

\* After the first successful originate of the helper: the agent leaves the
\* sales queue and is marked busy, with the call id when auto_bridge, with
\* None otherwise; if that fails the helper puts the agent back and returns.
helper_mark_busy(A, pass, m, a, c, ok) ==
    IF pass = "acquisition" THEN mark_agent_busy_in_cache(A, a, None, ok)
    ELSE LET q1 == remove_agent_from_sales_queue(A.q, a)
             r == mark_agent_busy_in_cache([st |-> A.st, q |-> q1], a,
                                           IF auto_bridge(pass, m) THEN c ELSE None, ok)
         IN IF r.ret THEN r
            ELSE [st |-> r.st, q |-> add_sales_agent_to_queue(r.q, a), ret |-> FALSE]

\* The agents whose queue membership the helper changes with no agent lock
\* held: by remove_agent_from_sales_queue, a bare zrem, and by
\* add_sales_agent_to_queue, a bare zadd, when mark busy failed.
helper_lockless_writes(A, pass, m, a, c, ok) ==
    IF pass = "acquisition" THEN {}
    ELSE LET q1 == remove_agent_from_sales_queue(A.q, a)
             r == mark_agent_busy_in_cache([st |-> A.st, q |-> q1], a,
                                           IF auto_bridge(pass, m) THEN c ELSE None, ok)
         IN QueueChanges(A.q, q1)
            \cup (IF r.ret THEN {}
                  ELSE QueueChanges(r.q, add_sales_agent_to_queue(r.q, a)))

TickMarkBusy(w) ==
    LET t == tick[w]
        r == helper_mark_busy(Agent, t.pass, t.m, t.agent, t.call, TRUE)
    IN /\ t.pc = "mark"
       /\ agentStates' = r.st
       /\ idleQueue' = r.q
       /\ tick' = [tick EXCEPT ![w] =
                      IF r.ret THEN [t EXCEPT !.pc = "book", !.removed = TRUE]
                      ELSE helper_return(t)]
       /\ hist' = [hist EXCEPT !.lockless = @ \cup
                      helper_lockless_writes(Agent, t.pass, t.m, t.agent,
                                             t.call, TRUE)]
       /\ UNCHANGED <<redisCalls, redisLeads, waitingQueue, dialerLock, syncLock,
                      queueLock, leadStore, switch, now, refill, handler, drains>>

\* mark_agent_busy_in_cache could not take the agent's lock within its
\* blocking_timeout and returned None: the helper puts the agent back in the
\* sales queue and returns. The originate has succeeded; its call is not
\* recorded and its lead is not popped.
TickMarkBusyLockTimeout(w) ==
    LET t == tick[w]
        r == helper_mark_busy(Agent, t.pass, t.m, t.agent, t.call, FALSE)
    IN /\ t.pc = "mark"
       /\ agentStates' = r.st
       /\ idleQueue' = r.q
       /\ tick' = [tick EXCEPT ![w] = helper_return(t)]
       /\ hist' = [hist EXCEPT !.lockless = @ \cup
                      helper_lockless_writes(Agent, t.pass, t.m, t.agent,
                                             t.call, FALSE)]
       /\ UNCHANGED <<redisCalls, redisLeads, waitingQueue, dialerLock, syncLock,
                      queueLock, leadStore, switch, now, refill, handler, drains>>

\* add_active_call_in_cache, calls_dialed += 1, lead_queue.popleft().
TickBook(w) ==
    LET t == tick[w]
        key == IF t.pass = "acquisition" THEN AcqKey ELSE t.agent
    IN /\ t.pc = "book"
       /\ activeCalls' = add_active_call_in_cache(activeCalls, t.call,
                             call_record(t.call, key, Head(t.left)))
       /\ tick' = [tick EXCEPT ![w].pc = "orig", ![w].left = Tail(t.left),
                      ![w].n = t.n - 1, ![w].call = None]
       /\ hist' = [hist EXCEPT !.dialed = @ \cup {LeadOf(Head(t.left))}]
       /\ UNCHANGED <<redisAgents, completedCalls, redisLeads, waitingQueue,
                      dialerLock, syncLock, queueLock, leadStore, switch, now,
                      refill, handler, drains>>

\* QUEUE_REFILL_THRESHOLD.
QueueRefillThreshold == 100

\* The first n idle slots of AsyncSlots become tasks waiting to run; a task
\* that finds no slot is not modelled.
RECURSIVE send_refills(_, _, _)
send_refills(rf, n, slots) ==
    IF n = 0 \/ slots = <<>> THEN rf
    ELSE IF rf[Head(slots)].pc = "idle"
         THEN send_refills([rf EXCEPT ![Head(slots)].pc = "start"], n - 1,
                           Tail(slots))
         ELSE send_refills(rf, n, Tail(slots))

\* check_and_refill_queue: with an empty AGENT_LEAD_MAPPING the tick runs
\* refill_queue itself, otherwise it sends one refill_queue task for every
\* bucket shorter than the threshold.
TickRefillCheck(w) ==
    LET short == {k \in leadMapping.has :
                     Len(leadMapping.q[k]) < QueueRefillThreshold}
    IN /\ tick[w].pc = "refillcheck"
       /\ IF leadMapping.has = {}
          THEN /\ refill' = [refill EXCEPT ![w].pc = "start"]
               /\ tick' = [tick EXCEPT ![w].pc = "refilling"]
          ELSE /\ refill' = send_refills(refill, Cardinality(short),
                                         SetToSeq(AsyncSlots))
               /\ tick' = [tick EXCEPT ![w].pc = "release"]
       /\ UNCHANGED <<redisAgents, redisCalls, redisLeads, waitingQueue, dialerLock,
                      syncLock, queueLock, leadStore, switch, now, handler, drains,
                      hist>>

\* The refill_queue the tick called has returned.
TickRefillReturn(w) ==
    /\ tick[w].pc = "refilling"
    /\ refill[w].pc = "idle"
    /\ tick' = [tick EXCEPT ![w].pc = "release"]
    /\ UNCHANGED <<redisAgents, redisCalls, redisLeads, waitingQueue, dialerLock,
                   syncLock, queueLock, leadStore, switch, now, refill, handler,
                   drains, hist>>

\* finally: release_dialer_lock().
TickRelease(w) ==
    /\ tick[w].pc = "release"
    /\ dialerLock' = release_dialer_lock(dialerLock)
    /\ tick' = [tick EXCEPT ![w] = IdleTick]
    /\ hist' = [hist EXCEPT !.acquired = @ \ {w},
                            !.booked = {b \in @ : b.w # w},
                            !.failed = {f \in @ : f.w # w}]
    /\ UNCHANGED <<redisAgents, redisCalls, redisLeads, waitingQueue, syncLock,
                   queueLock, leadStore, switch, now, refill, handler, drains>>

(***************************************************************************)
(* refill_queue (dialer/tasks.py).                                         *)
(***************************************************************************)
\* The key of new_queue a lead goes under: 0 for a lead of an acquisition
\* campaign, the campaign's agent otherwise.
new_queue_key(l) ==
    IF campaign_segment(l) = "acquisition" \/ campaign_agent(l) = None
    THEN AcqKey ELSE campaign_agent(l)

\* new_queue[k] for the selected leads sel, as a list of snapshots.
RECURSIVE queue_objects(_)
queue_objects(ls) ==
    IF ls = <<>> THEN <<>>
    ELSE <<construct_queue_object(Head(ls))>> \o queue_objects(Tail(ls))

\* The campaigns are visited in the order of their segment rank: the leads
\* of sel for key k from rank r on.
RECURSIVE by_rank(_, _, _)
by_rank(sel, k, r) ==
    IF r > Len(Segments) THEN <<>>
    ELSE queue_objects(SetToSeq({l \in sel : /\ new_queue_key(l) = k
                                             /\ segment_rank(campaign_segment(l)) = r}))
         \o by_rank(sel, k, r + 1)

\* The leads in the order of their ids, whatever the segment.
by_lead_id(sel, k) == queue_objects(SetToSeq({l \in sel : new_queue_key(l) = k}))

new_queue(sel, k) == by_rank(sel, k, 1)

\* add_agent_to_set for every acquisition campaign with a selected lead.
add_agent_to_set(set, sel) ==
    set \cup {IF campaign_agent(l) = None THEN AcqKey ELSE campaign_agent(l) :
                 l \in {x \in sel : campaign_segment(x) = "acquisition"}}

\* The merge under the secondary queue lock: every list of new_queue is
\* appended to the bucket of its key.
merge_new_queue(lm, sel) ==
    LET keys == {k \in MappingKeys : new_queue(sel, k) # <<>>}
    IN [has |-> lm.has \cup keys,
        q |-> [k \in MappingKeys |-> lm.q[k] \o new_queue(sel, k)]]

\* The loop over the active campaigns: the pending leads are selected.
RefillSelect(s) ==
    LET sel == {l \in Leads : leadStatus[l] = "pending"}
    IN /\ refill[s].pc = "start"
       /\ refill' = [refill EXCEPT ![s] = [pc |-> "update", sel |-> sel]]
       /\ acqAgents' = add_agent_to_set(acqAgents, sel)
       /\ UNCHANGED <<redisAgents, redisCalls, priorityMapping, leadMapping,
                      waitingQueue, dialerLock, syncLock, queueLock, leadStore,
                      switch, now, tick, handler, drains, hist>>

\* refill_queue without its return on zero updated rows: the merge follows
\* whatever the update did.
RefillUpdateWithoutReturn(s) ==
    LET updated == {l \in refill[s].sel : leadStatus[l] = "pending"}
    IN /\ refill[s].pc = "update"
       /\ leadStatus' = [l \in Leads |->
                            IF l \in updated THEN "in_queue" ELSE leadStatus[l]]
       /\ refill' = [refill EXCEPT ![s].pc = "merge"]
       /\ hist' = [hist EXCEPT !.noop = @ \/ (updated = {} /\ leadMapping.has # {})]
       /\ UNCHANGED <<redisAgents, redisCalls, redisLeads, waitingQueue, dialerLock,
                      syncLock, queueLock, lastCallDate, callLogs, switch, now,
                      tick, handler, drains>>

\* Lead.objects.filter(id__in=lead_ids, status='pending').update(...), and
\* the return when no row was updated.
RefillUpdate(s) ==
    LET updated == {l \in refill[s].sel : leadStatus[l] = "pending"}
    IN /\ refill[s].pc = "update"
       /\ leadStatus' = [l \in Leads |->
                            IF l \in updated THEN "in_queue" ELSE leadStatus[l]]
       /\ refill' = [refill EXCEPT ![s] =
                        IF updated = {} THEN IdleRefill ELSE [@ EXCEPT !.pc = "merge"]]
       /\ hist' = [hist EXCEPT !.noop = @ \/ (updated = {} /\ leadMapping.has # {})]
       /\ UNCHANGED <<redisAgents, redisCalls, redisLeads, waitingQueue, dialerLock,
                      syncLock, queueLock, lastCallDate, callLogs, switch, now,
                      tick, handler, drains>>

\* The lock of AGENT_LEAD_MAPPING, hgetall, extend, hset, release.
\* hist.merged: the most leads the last merge appended to one bucket.
RefillMerge(s) ==
    /\ refill[s].pc = "merge"
    /\ queueLock["leads"] = 0
    /\ leadMapping' = merge_new_queue(leadMapping, refill[s].sel)
    /\ refill' = [refill EXCEPT ![s] = IdleRefill]
    /\ hist' = [hist EXCEPT !.merged =
                   CHOOSE n \in 0 .. NLeads :
                       /\ \E k \in MappingKeys : Len(new_queue(refill[s].sel, k)) = n
                       /\ \A k \in MappingKeys : Len(new_queue(refill[s].sel, k)) <= n]
    /\ UNCHANGED <<redisAgents, redisCalls, priorityMapping, acqAgents,
                   waitingQueue, dialerLock, syncLock, queueLock, leadStore, switch,
                   now, tick, handler, drains>>

\* The lock of AGENT_LEAD_MAPPING stays held for the whole blocking_timeout:
\* acquire returns False, the if has no else, and refill_queue ends.
RefillMergeLockTimeout(s) ==
    /\ refill[s].pc = "merge"
    /\ queueLock["leads"] # 0
    /\ refill' = [refill EXCEPT ![s] = IdleRefill]
    /\ UNCHANGED <<redisAgents, redisCalls, redisLeads, waitingQueue, dialerLock,
                   syncLock, queueLock, leadStore, switch, now, tick, handler,
                   drains, hist>>

(***************************************************************************)
(* The switch: what the leads and the network do to a channel.             *)
(***************************************************************************)
\* The lead picks up: CHANNEL_ANSWER of the first leg. A call originated
\* with auto_bridge is bridged by the switch to the agent of its dial string.
LeadAnswer(c) ==
    /\ channels[c].state = "ringing"
    /\ channels' = [channels EXCEPT ![c] =
           IF @.auto_bridge
           THEN [@ EXCEPT !.state = "bridged", !.peer = channels[c].agent_id]
           ELSE [@ EXCEPT !.state = "answered"]]
    /\ events' = Append(events, Event("CHANNEL_ANSWER", c, "none"))
    /\ UNCHANGED <<redisAgents, redisCalls, redisLeads, waitingQueue, dialerLock,
                   syncLock, queueLock, leadStore, now, tick, refill, handler,
                   drains, hist>>

\* The channel ends by itself: CHANNEL_HANGUP_COMPLETE.
ChannelHangup(c) ==
    /\ Live(channels[c])
    /\ \E cause \in IF channels[c].state = "ringing" THEN RingCauses ELSE TalkCauses :
          /\ channels' = [channels EXCEPT ![c].state = "ended", ![c].cause = cause]
          /\ events' = Append(events, Event("CHANNEL_HANGUP_COMPLETE", c, cause))
    /\ UNCHANGED <<redisAgents, redisCalls, redisLeads, waitingQueue, dialerLock,
                   syncLock, queueLock, leadStore, now, tick, refill, handler,
                   drains, hist>>

\* The hangup events delivered more than once, over all channels.
RECURSIVE Repeats(_)
Repeats(cs) ==
    IF cs = {} THEN 0
    ELSE LET c == CHOOSE x \in cs : TRUE
         IN channels[c].repeats + Repeats(cs \ {c})

\* The hangup event of an ended channel is delivered once more.
RepeatHangup(c) ==
    /\ channels[c].state = "ended"
    /\ Repeats(CallIds) < MaxRepeats
    /\ channels' = [channels EXCEPT ![c].repeats = @ + 1]
    /\ events' = Append(events, Event("CHANNEL_HANGUP_COMPLETE", c,
                                       channels[c].cause))
    /\ UNCHANGED <<redisAgents, redisCalls, redisLeads, waitingQueue, dialerLock,
                   syncLock, queueLock, leadStore, now, tick, refill, handler,
                   drains, hist>>

(***************************************************************************)
(* dispatch_event_handler (events/tasks.py). The listener hands the events *)
(* over in the order the switch sent them; two events of one call are      *)
(* never handled at the same time.                                         *)
(***************************************************************************)
CanTake(h, type) ==
    /\ handler[h].pc = "idle"
    /\ events # <<>>
    /\ Head(events).type = type
    /\ \A g \in Handlers :
          handler[g].pc # "idle" => handler[g].ev.uuid # Head(events).uuid

\* bridge_agent_to_call: uuid_bridge answers "+OK" for a parked call when
\* the agent's phone can be reached (reached).
bridge_agent_to_call(ch, c, reached) ==
    reached /\ ch[c].state \in {"answered", "parked"}

\* connect_agent_to_call(agent_id, call_uuid) on W = [st, q, calls, ch, ev]:
\* bridge, then mark busy and update the record; a failed bridge kills the
\* call with LOSE_RACE.
connect_agent_to_call(W, a, c, reached, ok) ==
    IF bridge_agent_to_call(W.ch, c, reached)
    THEN LET r == mark_agent_busy_in_cache([st |-> W.st, q |-> W.q], a, c, ok)
         IN [st |-> r.st, q |-> r.q,
             calls |-> update_active_call_in_cache(W.calls, c, a),
             ch |-> [W.ch EXCEPT ![c].state = "bridged", ![c].peer = a],
             ev |-> W.ev]
    ELSE LET d == disconnect_call([ch |-> W.ch, ev |-> W.ev], c, "LOSE_RACE")
         IN [st |-> W.st, q |-> W.q, calls |-> W.calls, ch |-> d.ch, ev |-> d.ev]

\* The agent the answer handler connects: the one of X-agent_id, or for a
\* call without it the next of the sales queue, else of the secondary sales
\* queue; [agent, q, connect].
answer_agent(st, q, ch) ==
    IF ch.agent_id # None
    THEN [agent |-> ch.agent_id, q |-> q,
          connect |-> is_agent_idle_in_cache(st, ch.agent_id, TRUE, FALSE, TRUE)]
    ELSE LET r1 == get_next_available_sales_agent(q)
             r2 == IF r1.agent = None
                   THEN get_next_available_secondary_sales_agent(r1.q) ELSE r1
         IN [agent |-> r2.agent, q |-> r2.q, connect |-> r2.agent # None]

\* CHANNEL_ANSWER, outbound, first answer; reached: the agent's phone can
\* be reached by uuid_bridge.
answer_outcome(reached) ==
    LET c == Head(events).uuid
        ch == channels[c]
        pick == answer_agent(agentStates, idleQueue, ch)
        W == [st |-> agentStates, q |-> pick.q, calls |-> activeCalls,
              ch |-> channels, ev |-> Tail(events)]
        d == disconnect_call([ch |-> channels, ev |-> Tail(events)], c,
                             IF ch.agent_id # None THEN "AGENT_BUSY"
                             ELSE "NO_AVAILABLE_AGENT")
        r == IF ch.auto_bridge THEN W
             ELSE IF pick.connect
                  THEN connect_agent_to_call(W, pick.agent, c, reached, TRUE)
             ELSE [W EXCEPT !.ch = d.ch, !.ev = d.ev]
    IN r

\* The agents the answer handler takes from an idle queue with no agent lock
\* held: the zpopmin of get_next_available_*_agent, for a call that has no
\* X-agent_id and was not originated with auto_bridge.
answer_lockless_writes ==
    LET ch == channels[Head(events).uuid]
    IN IF ch.auto_bridge THEN {}
       ELSE QueueChanges(idleQueue, answer_agent(agentStates, idleQueue, ch).q)

HandleAnswer(h) ==
    /\ CanTake(h, "CHANNEL_ANSWER")
    /\ \E reached \in BOOLEAN :
          LET r == answer_outcome(reached)
          IN /\ agentStates' = r.st
             /\ idleQueue' = r.q
             /\ activeCalls' = r.calls
             /\ channels' = r.ch
             /\ events' = r.ev
    /\ hist' = [hist EXCEPT !.lockless = @ \cup answer_lockless_writes]
    /\ UNCHANGED <<completedCalls, redisLeads, waitingQueue, dialerLock, syncLock,
                   queueLock, leadStore, now, tick, refill, handler, drains>>

\* CHANNEL_HANGUP_COMPLETE, first step: remove_active_call, and the agent of
\* the event or else of the record.
HandleHangup(h) ==
    LET e == Head(events)
        r == remove_active_call(activeCalls, e.uuid)
        hdr == channels[e.uuid].agent_id
    IN /\ CanTake(h, "CHANNEL_HANGUP_COMPLETE")
       /\ activeCalls' = r.calls
       /\ events' = Tail(events)
       /\ handler' = [handler EXCEPT ![h] =
              [pc |-> "routine", ev |-> e, details |-> r.details,
               agent_id |-> IF hdr # None THEN hdr ELSE r.details.agent_id]]
       /\ hist' = [hist EXCEPT !.hangups[e.uuid] = @ + 1]
       /\ UNCHANGED <<redisAgents, completedCalls, redisLeads, waitingQueue,
                      dialerLock, syncLock, queueLock, leadStore, channels, now,
                      tick, refill, drains>>

RaceLossCauses == {"NO_AVAILABLE_AGENT", "AGENT_BUSY", "LOSE_RACE"}

\* The record call_ending_routine pushes: the record with disconnect_reason.
completed_record(details, cause) ==
    [call_uuid |-> details.call_uuid, agent_id |-> details.agent_id,
     lead_id |-> details.lead_id, nested |-> details.nested,
     initiated_at |-> details.initiated_at, disconnect_reason |-> cause]

\* sync_to_db_wrapper on D = [lock, scheduled]: nothing while the key is
\* there, else set it and send sync_to_db.
sync_to_db_wrapper(D) ==
    IF D.lock THEN D ELSE [lock |-> TRUE, scheduled |-> D.scheduled + 1]

\* The rest of the handler: the re-enqueue of a call that lost the race, the
\* agent freed after NORMAL_CLEARING, then call_ending_routine for a call
\* that had a record.
HangupFinish(h) ==
    LET hd == handler[h]
        c == hd.ev.uuid
        requeue == hd.ev.cause \in RaceLossCauses /\ hd.details # NoRec
        free == hd.ev.cause = "NORMAL_CLEARING" /\ hd.agent_id # None
        r == IF free THEN handle_free_agent(Agent, hd.agent_id, TRUE) ELSE Agent
        D == sync_to_db_wrapper([lock |-> syncLock, scheduled |-> drains.scheduled])
    IN /\ hd.pc = "routine"
       /\ requeue => queueLock["priority"] = 0
       /\ priorityMapping' =
              IF requeue
              THEN add_to_priority_queue_mapping(priorityMapping, hd.agent_id,
                                                 requeue_entry(hd.details), TRUE)
              ELSE priorityMapping
       /\ agentStates' = r.st
       /\ idleQueue' = r.q
       /\ handler' = [handler EXCEPT ![h] = IdleHandler]
       /\ IF hd.details # NoRec
          THEN /\ completedCalls' =
                      Append(completedCalls, completed_record(hd.details, hd.ev.cause))
               /\ hist' = [hist EXCEPT
                              !.pushes[c] = @ + 1,
                              !.raceLost = IF requeue THEN @ \cup {LeadOf(hd.details)}
                                           ELSE @]
               /\ syncLock' = D.lock
               /\ drains' = [drains EXCEPT !.scheduled = D.scheduled]
          ELSE UNCHANGED <<completedCalls, hist, syncLock, drains>>
       /\ UNCHANGED <<activeCalls, leadMapping, acqAgents, waitingQueue, dialerLock,
                      queueLock, leadStore, switch, now, tick, refill>>

\* The rest of the handler for a call that lost the race while the lock of
\* the priority mapping stays held for the whole blocking_timeout:
\* add_to_priority_queue_mapping logs the error and returns, and the handler
\* goes on to call_ending_routine.
HangupFinishLockTimeout(h) ==
    LET hd == handler[h]
        c == hd.ev.uuid
        D == sync_to_db_wrapper([lock |-> syncLock, scheduled |-> drains.scheduled])
    IN /\ hd.pc = "routine"
       /\ hd.ev.cause \in RaceLossCauses
       /\ hd.details # NoRec
       /\ queueLock["priority"] # 0
       /\ priorityMapping' =
              add_to_priority_queue_mapping(priorityMapping, hd.agent_id,
                                            requeue_entry(hd.details), FALSE)
       /\ handler' = [handler EXCEPT ![h] = IdleHandler]
       /\ completedCalls' =
              Append(completedCalls, completed_record(hd.details, hd.ev.cause))
       /\ hist' = [hist EXCEPT !.pushes[c] = @ + 1,
                               !.raceLost = @ \cup {LeadOf(hd.details)}]
       /\ syncLock' = D.lock
       /\ drains' = [drains EXCEPT !.scheduled = D.scheduled]
       /\ UNCHANGED <<redisAgents, activeCalls, leadMapping, acqAgents, waitingQueue,
                      dialerLock, queueLock, leadStore, switch, now, tick, refill>>

(***************************************************************************)
(* Inbound calls: CHANNEL_PARK, the waiting room and CHANNEL_EXECUTE       *)
(* (events/tasks.py).                                                      *)
(***************************************************************************)
\* variable_ivr_choice: "1" is support, "2" is sales, 9 stands for any other
\* digit.
IvrChoices == {1, 2, 9}

\* An inbound caller has made its choice and reaches the IVR's park point.
InboundPark(choice) ==
    /\ FreeIds # {}
    /\ NewUuid <= MaxInbound
    /\ channels' = [channels EXCEPT ![NewUuid] =
           [NoChan EXCEPT !.state = "parked", !.dir = "inbound", !.ivr = choice]]
    /\ events' = Append(events, Event("CHANNEL_PARK", NewUuid, "none"))
    /\ UNCHANGED <<redisAgents, redisCalls, redisLeads, waitingQueue, dialerLock,
                   syncLock, queueLock, leadStore, now, tick, refill, handler,
                   drains, hist>>

\* The customer waiting lists: a customer is added at the tail, the next
\* one is the head, read without removing it.
add_customer_to_waiting_queue(wq, c, team) == [wq EXCEPT ![team] = Append(@, c)]
get_next_customer_waiting_in_queue(wq, team) ==
    IF wq[team] = <<>> THEN None ELSE Head(wq[team])
remove_customer_from_waiting_queue(wq, c) ==
    [k \in DOMAIN wq |-> SeqRemove(wq[k], c)]

\* transfer_call(call_uuid, agent_id): uuid_transfer to the agent's
\* extension; the switch connects a live call to that agent.
transfer_call(ch, c, a) ==
    IF Live(ch[c]) THEN [ch EXCEPT ![c].state = "bridged", ![c].peer = a] ELSE ch

\* transfer_call(uuid, "waiting_room"): the call stays parked, with the
\* waiting room's dialplan entry or, when the extension mapping has no key
\* "waiting_room", where the IVR parked it.
transfer_to_waiting_room(ch, c) == ch

\* CHANNEL_PARK of the call c on P = [st, q, wq, ch]: the next available
\* agent of the chosen team is marked busy with the call and gets it, or the
\* call joins the team's waiting list; any other choice is logged.
park_outcome(P, c, ok) ==
    LET sel == P.ch[c].ivr
        pop == IF sel = 1 THEN get_next_available_support_agent(P.q)
               ELSE get_next_available_secondary_sales_agent(P.q)
        team == IF sel = 1 THEN "support" ELSE "secondary_sales"
        r == mark_agent_busy_in_cache([st |-> P.st, q |-> pop.q], pop.agent, c, ok)
    IN IF P.ch[c].dir # "inbound" \/ sel \notin {1, 2} THEN P
       ELSE IF pop.agent # None
            THEN [st |-> r.st, q |-> r.q, wq |-> P.wq,
                  ch |-> transfer_call(P.ch, c, pop.agent)]
            ELSE [st |-> P.st, q |-> pop.q,
                  wq |-> add_customer_to_waiting_queue(P.wq, c, team),
                  ch |-> transfer_to_waiting_room(P.ch, c)]

HandlePark(h) ==
    /\ CanTake(h, "CHANNEL_PARK")
    /\ \E ok \in BOOLEAN :
          LET r == park_outcome([st |-> agentStates, q |-> idleQueue,
                                 wq |-> waitingQueue, ch |-> channels],
                                Head(events).uuid, ok)
          IN /\ agentStates' = r.st
             /\ idleQueue' = r.q
             /\ waitingQueue' = r.wq
             /\ channels' = r.ch
    /\ events' = Tail(events)
    /\ UNCHANGED <<redisCalls, redisLeads, dialerLock, syncLock, queueLock,
                   leadStore, now, tick, refill, handler, drains, hist>>

\* One half of an iteration of waiting_room_task, for one team, on
\* W = [st, q, wq, calls, ch, ev]: with a customer waiting and an agent in
\* the team's idle queue, mark busy, connect_agent_to_call, dequeue.
waiting_room_team(W, team, ok, reached) ==
    LET customer == get_next_customer_waiting_in_queue(W.wq, team)
        pop == IF team = "support" THEN get_next_available_support_agent(W.q)
               ELSE get_next_available_secondary_sales_agent(W.q)
        r == mark_agent_busy_in_cache([st |-> W.st, q |-> pop.q], pop.agent,
                                      customer, ok)
        k == connect_agent_to_call([st |-> r.st, q |-> r.q, calls |-> W.calls,
                                    ch |-> W.ch, ev |-> W.ev],
                                   pop.agent, customer, reached, ok)
    IN IF customer = None THEN W
       ELSE IF pop.agent = None THEN [W EXCEPT !.q = pop.q]
       ELSE [st |-> k.st, q |-> k.q, calls |-> k.calls, ch |-> k.ch, ev |-> k.ev,
             wq |-> remove_customer_from_waiting_queue(W.wq, customer)]

\* One iteration of waiting_room_task: support, then secondary_sales.
WaitingRoomIteration ==
    /\ \E k \in DOMAIN waitingQueue : waitingQueue[k] # <<>>
    /\ \E ok \in BOOLEAN, reached \in BOOLEAN :
          LET W0 == [st |-> agentStates, q |-> idleQueue, wq |-> waitingQueue,
                     calls |-> activeCalls, ch |-> channels, ev |-> events]
              W1 == waiting_room_team(W0, "support", ok, reached)
              W2 == waiting_room_team(W1, "secondary_sales", ok, reached)
          IN /\ agentStates' = W2.st
             /\ idleQueue' = W2.q
             /\ waitingQueue' = W2.wq
             /\ activeCalls' = W2.calls
             /\ channels' = W2.ch
             /\ events' = W2.ev
    /\ UNCHANGED <<completedCalls, redisLeads, dialerLock, syncLock, queueLock,
                   leadStore, now, tick, refill, handler, drains, hist>>

\* The agent on the call c transfers it to agent b: the switch executes the
\* application transfer.
AgentTransfers(c, b) ==
    /\ channels[c].state = "bridged"
    /\ channels[c].peer \in Agents \ {b}
    /\ channels[c].transferor = None
    /\ channels' = [channels EXCEPT ![c].transferor = channels[c].peer,
                                    ![c].peer = b]
    /\ events' = Append(events, Event("CHANNEL_EXECUTE", c, "none"))
    /\ UNCHANGED <<redisAgents, redisCalls, redisLeads, waitingQueue, dialerLock,
                   syncLock, queueLock, leadStore, now, tick, refill, handler,
                   drains, hist>>

\* CHANNEL_EXECUTE with application transfer, on A = [st, q]:
\* mark_agent_idle_in_cache(transferor), then
\* mark_agent_busy_in_cache(new_destination), a call with one argument of a
\* function of two: it raises TypeError and the destination stays as it is.
execute_transfer(A, transferor, new_destination) ==
    LET r == mark_agent_idle_in_cache(A, transferor, TRUE)
    IN [st |-> r.st, q |-> r.q]

HandleExecute(h) ==
    LET ch == channels[Head(events).uuid]
        r == execute_transfer(Agent, ch.transferor, ch.peer)
    IN /\ CanTake(h, "CHANNEL_EXECUTE")
       /\ agentStates' = r.st
       /\ idleQueue' = r.q
       /\ events' = Tail(events)
       /\ UNCHANGED <<redisCalls, redisLeads, waitingQueue, dialerLock, syncLock,
                      queueLock, leadStore, channels, now, tick, refill, handler,
                      drains, hist>>

(***************************************************************************)
(* sync_to_db (events/tasks.py), the drain of COMPLETED_CALLS.             *)
(***************************************************************************)
\* datetime.fromtimestamp(x) needs a number: it raises TypeError for the
\* ISO string the dialer stores as initiated_at.
fromtimestamp_raises(x) == x = "iso"

\* The loop of sync_to_db over the records it took, from the state
\* acc = [raised, logs, completed, not_picked, invalid]: a record without
\* lead_id in its payload is skipped, the others get a CallLog row and
\* their lead goes to the list of the mapped status.
RECURSIVE sync_rows(_, _)
sync_rows(batch, acc) ==
    IF batch = <<>> \/ acc.raised THEN acc
    ELSE LET d == Head(batch)
             status == map_call_status(d.disconnect_reason)
             outcome == lead_status_for(status)
         IN IF d.lead_id = None THEN sync_rows(Tail(batch), acc)
            ELSE IF d.initiated_at # "none" /\ fromtimestamp_raises(d.initiated_at)
                 THEN [acc EXCEPT !.raised = TRUE]
                 ELSE sync_rows(Tail(batch),
                        [acc EXCEPT
                           !.logs[d.call_uuid] = @ + 1,
                           !.completed = IF outcome = "completed"
                                         THEN @ \cup {d.lead_id} ELSE @,
                           !.not_picked = IF outcome = "not_answered"
                                          THEN @ \cup {d.lead_id} ELSE @,
                           !.invalid = IF outcome = "invalid"
                                       THEN @ \cup {d.lead_id} ELSE @])

\* The three updates that follow the loop, in their order.
lead_status_after(acc, old, l) ==
    IF l \in acc.invalid THEN "invalid"
    ELSE IF l \in acc.not_picked THEN "not_answered"
    ELSE IF l \in acc.completed THEN "completed"
    ELSE old[l]

\* sync_to_db starts, 5 s after it was sent: get_and_clear_completed_calls.
DrainTake ==
    /\ drains.scheduled > 0
    /\ ~drains.running
    /\ drains' = [drains EXCEPT !.scheduled = @ - 1, !.running = TRUE,
                                !.batch = completedCalls]
    /\ completedCalls' = <<>>
    /\ UNCHANGED <<redisAgents, activeCalls, redisLeads, waitingQueue, dialerLock,
                   syncLock, queueLock, leadStore, switch, now, tick, refill,
                   handler, hist>>

\* The rest of sync_to_db: the rows, then the lead updates and the delete of
\* SYNC_TO_DB_LOCK, which an exception in the loop skips.
DrainWrite ==
    LET acc == sync_rows(drains.batch,
                         [raised |-> FALSE, logs |-> callLogs, completed |-> {},
                          not_picked |-> {}, invalid |-> {}])
        touched == acc.completed \cup acc.not_picked \cup acc.invalid
    IN /\ drains.running
       /\ callLogs' = acc.logs
       /\ leadStatus' = IF acc.raised THEN leadStatus
                        ELSE [l \in Leads |-> lead_status_after(acc, leadStatus, l)]
       /\ lastCallDate' = IF acc.raised THEN lastCallDate
                          ELSE [l \in Leads |->
                                   IF l \in touched THEN now ELSE lastCallDate[l]]
       /\ syncLock' = IF acc.raised THEN syncLock ELSE FALSE
       /\ drains' = [drains EXCEPT !.running = FALSE, !.batch = <<>>]
       /\ hist' = [hist EXCEPT !.drained =
                      @ \cup {drains.batch[i] : i \in 1 .. Len(drains.batch)}]
       /\ UNCHANGED <<redisAgents, redisCalls, redisLeads, waitingQueue, dialerLock,
                      queueLock, channels, events, now, tick, refill, handler>>

\* call_ending_routine of the call c as the handlers of several calls run
\* it side by side: add_call_to_completed_list, then the first command of
\* sync_to_db_wrapper, conn.get(SYNC_TO_DB_LOCK). A caller that finds the
\* key returns False; drains.seen: the callers that found none and have not
\* yet set it.
CallEndingRoutine(c) ==
    /\ hist.pushes[c] = 0
    /\ completedCalls' =
           Append(completedCalls,
                  completed_record(call_record(c, 1, construct_queue_object(1)),
                                   "NORMAL_CLEARING"))
    /\ hist' = [hist EXCEPT !.pushes[c] = 1]
    /\ drains' = [drains EXCEPT !.seen = IF syncLock THEN @ ELSE @ \cup {c}]
    /\ UNCHANGED <<redisAgents, activeCalls, redisLeads, waitingQueue, dialerLock,
                   syncLock, queueLock, leadStore, switch, now, tick, refill,
                   handler>>

\* The rest of sync_to_db_wrapper: conn.set(SYNC_TO_DB_LOCK, "locked", ex=5),
\* with no nx, and sync_to_db.apply_async(countdown=5).
WrapperSet(c) ==
    /\ c \in drains.seen
    /\ syncLock' = TRUE
    /\ drains' = [drains EXCEPT !.seen = @ \ {c}, !.scheduled = @ + 1]
    /\ UNCHANGED <<redisAgents, redisCalls, redisLeads, waitingQueue, dialerLock,
                   queueLock, leadStore, switch, now, tick, refill, handler, hist>>

\* SYNC_TO_DB_LOCK was set with ex=5: the key expires.
SyncLockExpire ==
    /\ syncLock
    /\ syncLock' = FALSE
    /\ UNCHANGED <<redisAgents, redisCalls, redisLeads, waitingQueue, dialerLock,
                   queueLock, leadStore, switch, now, tick, refill, handler,
                   drains, hist>>

(***************************************************************************)
(* Specifications. Each one is the program with a part of its environment: *)
(* the operations it leaves out do not happen in its runs.                 *)
(***************************************************************************)
\* The steps of a dialer tick of worker w whose passes compute the dial
\* multiplier m.
TickStepWith(w, m) ==
    \/ TickStart(w)
    \/ TickReap(w)
    \/ TickPriority(w)
    \/ TickSecondary(w, m)
    \/ TickAcquisition(w, m)
    \/ TickLoop(w)
    \/ TickOriginate(w)
    \/ TickMarkBusy(w)
    \/ TickBook(w)
    \/ TickRefillCheck(w)
    \/ TickRefillReturn(w)
    \/ TickRelease(w)

\* The steps of a dialer tick with the configured pickup ratio.
TickStep(w) == TickStepWith(w, DialMultiplier)

RefillStep(s) == RefillSelect(s) \/ RefillUpdate(s) \/ RefillMerge(s)

HandlerStep(h) == HandleAnswer(h) \/ HandleHangup(h) \/ HangupFinish(h)

DrainStep == DrainTake \/ DrainWrite \/ SyncLockExpire

\* One worker runs the ticks, one after the other.
OneWorker == {1}
\* One agent and one lead.
OneAgent == {1}
OneLead == {1}

\* The whole program.
Next ==
    \/ \E a \in Agents, team \in Teams : Login(a, team, TRUE)
    \/ \E a \in Agents : Logout(a, TRUE)
    \/ \E l \in Leads : UploadLead(l)
    \/ Clock
    \/ \E w \in Workers : TickStep(w)
    \/ \E s \in RefillSlots : RefillStep(s)
    \/ \E c \in CallIds : LeadAnswer(c) \/ ChannelHangup(c) \/ RepeatHangup(c)
    \/ \E h \in Handlers : HandlerStep(h)
    \/ DrainStep

Spec == Init /\ [][Next]_vars

\* The agents of every team log in and out while one worker dials.
NextAgents ==
    \/ \E a \in Agents, team \in Teams : Login(a, team, TRUE)
    \/ \E a \in Agents : Logout(a, TRUE)
    \/ \E l \in Leads : UploadLead(l)
    \/ \E w \in OneWorker : TickStep(w)
    \/ \E s \in SyncSlots : RefillStep(s)

SpecAgents == Init /\ [][NextAgents]_vars

\* Ticks triggered on every worker, and every refill they start; no lead
\* answers and no call ends.
NextTicks ==
    \/ \E a \in Agents : Login(a, "sales", TRUE)
    \/ \E l \in Leads : UploadLead(l)
    \/ \E w \in Workers : TickStep(w)
    \/ \E s \in RefillSlots : RefillStep(s)

SpecTicks == Init /\ [][NextTicks]_vars

\* Ticks triggered on every worker for one agent and one lead, whose calls
\* are answered and handled.
NextParallel ==
    \/ \E a \in OneAgent : Login(a, "sales", TRUE)
    \/ \E l \in OneLead : UploadLead(l)
    \/ \E w \in Workers : TickStep(w)
    \/ \E s \in SyncSlots : RefillStep(s)
    \/ \E c \in CallIds : LeadAnswer(c)
    \/ \E h \in Handlers : HandlerStep(h)

SpecParallel == Init /\ [][NextParallel]_vars

\* One worker dials; the calls are answered, end, and are handled.
NextCalls ==
    \/ \E a \in Agents : Login(a, "sales", TRUE)
    \/ \E l \in Leads : UploadLead(l)
    \/ \E w \in OneWorker : TickStep(w)
    \/ \E s \in SyncSlots : RefillStep(s)
    \/ \E c \in CallIds : LeadAnswer(c) \/ ChannelHangup(c) \/ RepeatHangup(c)
    \/ \E h \in Handlers : HandlerStep(h)

SpecCalls == Init /\ [][NextCalls]_vars

\* One worker dials, the calls end unanswered, time passes.
NextReaper ==
    \/ \E a \in Agents : Login(a, "sales", TRUE)
    \/ \E l \in Leads : UploadLead(l)
    \/ \E w \in OneWorker : TickStep(w)
    \/ \E s \in SyncSlots : RefillStep(s)
    \/ \E c \in CallIds : ChannelHangup(c)
    \/ \E h \in Handlers : HandleHangup(h) \/ HangupFinish(h)
    \/ Clock

SpecReaper == Init /\ [][NextReaper]_vars

\* One worker dials for one agent; the calls end and are drained.
NextSink ==
    \/ \E a \in OneAgent : Login(a, "sales", TRUE)
    \/ \E l \in Leads : UploadLead(l)
    \/ \E w \in OneWorker : TickStep(w)
    \/ \E s \in SyncSlots : RefillStep(s)
    \/ \E c \in CallIds : LeadAnswer(c) \/ ChannelHangup(c)
    \/ \E h \in Handlers : HandlerStep(h)
    \/ DrainStep

SpecSink == Init /\ [][NextSink]_vars

\* The guard of the drain alone: the handlers of the calls that ended push
\* their records and call sync_to_db_wrapper, and the drains run.
NextSingleFlight ==
    \/ \E c \in CallIds : CallEndingRoutine(c) \/ WrapperSet(c)
    \/ DrainStep

SpecSingleFlight == Init /\ [][NextSingleFlight]_vars

\* The operations called one by one, in any order.
NextOps ==
    \/ \E a \in Agents, team \in Teams, ok \in BOOLEAN : DoLogin(a, team, ok)
    \/ \E a \in Agents, ok \in BOOLEAN : DoMarkIdle(a, ok) \/ DoLogout(a, ok)
    \/ \E a \in Agents, c \in {None, 1}, ok \in BOOLEAN : DoMarkBusy(a, c, ok)
    \/ \E a \in OneAgent, l \in Leads, ok \in BOOLEAN : DoEnqueue(a, l, ok)
    \/ \E team \in Teams : DoNextAvailable(team)

SpecOps == Init /\ [][NextOps]_vars

\* Calls and refills with the lock timeouts: a queue lock that stays held
\* longer than the blocking_timeout of the one waiting for it.
NextLocks ==
    \/ \E a \in Agents : Login(a, "sales", TRUE)
    \/ \E l \in Leads : UploadLead(l)
    \/ \E w \in OneWorker : TickStep(w) \/ TickLoopLockTimeout(w)
    \/ \E s \in RefillSlots : RefillStep(s) \/ RefillMergeLockTimeout(s)
    \/ \E c \in CallIds : LeadAnswer(c)
    \/ \E h \in Handlers : HandlerStep(h) \/ HangupFinishLockTimeout(h)

SpecLocks == Init /\ [][NextLocks]_vars

\* One worker dials, its passes run with every dial multiplier a pickup
\* ratio can give; earlier calls have left leads in the priority mapping, and
\* the agent's lock can be held by someone else when the helper marks busy.
NextMultiplier ==
    \/ \E a \in Agents : Login(a, "sales", TRUE)
    \/ \E l \in Leads : UploadLead(l)
    \/ \E a \in Agents, l \in OneLead : DoEnqueue(a, l, TRUE)
    \/ \E w \in OneWorker, m \in 1 .. MaxMultiplier : TickStepWith(w, m)
    \/ \E w \in OneWorker : TickMarkBusyLockTimeout(w)
    \/ \E s \in SyncSlots : RefillStep(s)

SpecMultiplier == Init /\ [][NextMultiplier]_vars

\* One worker dials with the configured pickup ratio; earlier calls have left
\* leads in the priority mapping, and an originate can fail.
NextFailures ==
    \/ \E a \in Agents : Login(a, "sales", TRUE)
    \/ \E l \in Leads : UploadLead(l)
    \/ \E a \in Agents, l \in OneLead : DoEnqueue(a, l, TRUE)
    \/ \E w \in OneWorker : TickStep(w) \/ TickOriginateFails(w)
    \/ \E s \in SyncSlots : RefillStep(s)

SpecFailures == Init /\ [][NextFailures]_vars

\* A refill_queue task sent by refill_queue.apply_async() starts.
RefillSent(s) ==
    /\ refill[s].pc = "idle"
    /\ refill' = [refill EXCEPT ![s].pc = "start"]
    /\ UNCHANGED <<redisAgents, redisCalls, redisLeads, waitingQueue, dialerLock,
                   syncLock, queueLock, leadStore, switch, now, tick, handler,
                   drains, hist>>

\* refill_queue alone, over leads uploaded to campaigns of every segment
\* and agent.
NextRefill ==
    \/ \E l \in Leads, a \in Agents :
          \E i \in DOMAIN Segments : UploadLeadTo(l, Segments[i], a)
    \/ \E s \in AsyncSlots : RefillSent(s) \/ RefillStep(s)

SpecRefill == Init /\ [][NextRefill]_vars

\* The teams that take inbound calls: the first agent is of support, the
\* others of secondary_sales.
InboundTeam(a) == IF a = 1 THEN "support" ELSE "secondary_sales"

\* Inbound calls with agents of both inbound teams, and the ticks of one
\* worker for their reaper. No lead is uploaded: the passes find nothing to
\* dial and the refill selects no lead, so the steps that need one never
\* happen.
NextInbound ==
    \/ \E a \in Agents : Login(a, InboundTeam(a), TRUE)
    \/ \E choice \in IvrChoices : InboundPark(choice)
    \/ \E h \in Handlers : HandlePark(h) \/ HandleExecute(h)
    \/ \E h \in Handlers : HandleHangup(h) \/ HangupFinish(h)
    \/ WaitingRoomIteration
    \/ \E c \in CallIds, b \in Agents : AgentTransfers(c, b)
    \/ \E c \in CallIds : ChannelHangup(c)
    \/ \E w \in OneWorker :
          \/ TickStart(w) \/ TickReap(w) \/ TickPriority(w)
          \/ TickSecondary(w, DialMultiplier) \/ TickAcquisition(w, DialMultiplier)
          \/ TickRefillCheck(w) \/ TickRefillReturn(w) \/ TickRelease(w)
    \/ \E s \in SyncSlots : RefillSelect(s) \/ RefillUpdate(s)

SpecInbound == Init /\ [][NextInbound]_vars

\* The inbound calls and the waiting room alone. waiting_room_task is a
\* loop that never ends: an iteration that can change something is
\* eventually run.
NextWaitingRoom ==
    \/ \E a \in Agents : Login(a, InboundTeam(a), TRUE)
    \/ \E choice \in IvrChoices : InboundPark(choice)
    \/ \E h \in Handlers : HandlePark(h)
    \/ \E h \in Handlers : HandleHangup(h) \/ HangupFinish(h)
    \/ WaitingRoomIteration
    \/ \E c \in CallIds : ChannelHangup(c)

SpecWaitingRoom ==
    Init /\ [][NextWaitingRoom]_vars /\ WF_vars(WaitingRoomIteration)

(***************************************************************************)
(* Properties.                                                             *)
(***************************************************************************)
\* No tick, refill or handler is in the middle of its work, and no event
\* waits for its handler.
Quiesced ==
    /\ \A w \in Workers : tick[w].pc = "idle"
    /\ \A s \in RefillSlots : refill[s].pc = "idle"
    /\ \A h \in Handlers : handler[h].pc = "idle"
    /\ events = <<>>

\* The idle queues agent a is a member of.
QueuesOf(a) == {k \in QueueKeys : SeqHas(idleQueue[k], a)}

\* C1: once the operations have quiesced, an agent is idle with no current
\* call if and only if it is a member of exactly one idle queue, the queue
\* of its own team.
C1_IdleIffQueued ==
    Quiesced =>
        \A a \in Agents :
            (agentStates[a].state = "idle" /\ agentStates[a].current_call_id = None)
            <=> QueuesOf(a) = {agentStates[a].team}

\* C2: at most one tick at a time is between its successful acquisition of
\* dialer:execution_lock and its release of it.
C2_OneTickHoldsLock == Cardinality(hist.acquired) <= 1

\* The calls originated with auto_bridge for agent a that the switch still
\* holds and the dialer has booked in ACTIVE_CALLS.
BookedAutoBridge(a) ==
    {c \in CallIds : /\ Live(channels[c])
                     /\ channels[c].auto_bridge
                     /\ channels[c].agent_id = a
                     /\ activeCalls[c] # NoRec}

\* C3: under ticks triggered in parallel, no agent is the target of more
\* than one outstanding originate with auto_bridge=true (here: of more than
\* one that the dialer has booked).
C3_NoDoubleBook == \A a \in Agents : Cardinality(BookedAutoBridge(a)) <= 1

\* C4: no record for a call exists, or is created, in ACTIVE_CALLS once a
\* CHANNEL_HANGUP_COMPLETE of the call has been processed.
C4_NoRecordAfterHangup ==
    \A c \in CallIds : hist.hangups[c] > 0 => activeCalls[c] = NoRec

C6_OneCallLogRow == \A d \in hist.drained : callLogs[d.call_uuid] = 1

\* No call is left: no channel on the switch, no record in ACTIVE_CALLS, no
\* event waiting and no handler at work.
NoCallLeft ==
    /\ \A c \in CallIds : ~Live(channels[c]) /\ activeCalls[c] = NoRec
    /\ \A h \in Handlers : handler[h].pc = "idle"
    /\ events = <<>>

\* Agent a has been busy without a call for more than 90 s.
StuckBusy(a) ==
    /\ agentStates[a].state = "busy"
    /\ agentStates[a].current_call_id = None
    /\ agentStates[a].busy_since # None
    /\ now - agentStates[a].busy_since > ReaperLimit
    /\ NoCallLeft

\* C7: the reaper of a tick returns to idle, and to its idle queue, every
\* agent that has been busy with no active call for more than 90 s.
C7_ReaperFreesStuckAgent ==
    [][\A w \in Workers, a \in Agents :
          (tick[w].pc = "reap" /\ tick'[w].pc # "reap" /\ StuckBusy(a))
          => /\ agentStates'[a].state = "idle"
             /\ SeqHas(idleQueue'[queue_key(agentStates'[a])], a)]_vars

\* The queued snapshots of lead l: their places in AGENT_LEAD_MAPPING and in
\* AGENT_PRIORITY_LEAD_MAPPING.
SnapshotsOf(l) ==
    UNION {{<<"leads", k, i>> :
               i \in {j \in 1 .. Len(leadMapping.q[k]) :
                         LeadOf(leadMapping.q[k][j]) = l}} : k \in MappingKeys}
    \cup
    UNION {{<<"priority", k, i>> :
               i \in {j \in 1 .. Len(priorityMapping[k]) :
                         LeadOf(priorityMapping[k][j]) = l}} : k \in MappingKeys}

\* C8: a lead in status in_queue never has more than one queued snapshot
\* across the queues, also under concurrent refills with new leads arriving.
C8_AtMostOneSnapshot ==
    \A l \in Leads :
        leadStatus[l] = "in_queue" => Cardinality(SnapshotsOf(l)) <= 1

\* C9: once the drain has taken the completed record of a call to a lead
\* whose hangup cause maps to an outcome, the lead has that outcome's status
\* and a last_call_date.
C9_LeadReachesOutcome ==
    \A d \in hist.drained :
        LET outcome == lead_status_for(map_call_status(d.disconnect_reason))
        IN (d.lead_id # None /\ outcome # "none")
           => /\ leadStatus[d.lead_id] = outcome
              /\ lastCallDate[d.lead_id] # None

\* C10: a run of refill_queue that finds none of its leads pending updates
\* no lead row, leaves AGENT_LEAD_MAPPING as it is, and ends.
C10_RefillIdempotent ==
    [][\A s \in RefillSlots :
          (/\ refill[s].pc = "update"
           /\ refill'[s] # refill[s]
           /\ \A l \in refill[s].sel : leadStatus[l] # "pending")
          => /\ leadStatus' = leadStatus
             /\ leadMapping' = leadMapping
             /\ refill'[s].pc = "idle"]_vars

\* A run of refill_queue after the queue was filled has updated no row.
C10_SecondRunUpdatedNothing == hist.noop /\ leadMapping.has # {}

\* The snapshots of lead l in AGENT_PRIORITY_LEAD_MAPPING.
PrioritySnapshotsOf(l) == {p \in SnapshotsOf(l) : p[1] = "priority"}

\* A lead the refill moved to in_queue and no pass has taken from its queue.
RefilledNotDialed(l) == leadStatus[l] = "in_queue" /\ l \notin hist.dialed

\* C11: a queue lock that is not acquired within the timeout drops nothing:
\* once the operations have ended, a lead the refill moved to in_queue is in
\* a queue until it is dialed, and a lead of a call that lost the race is in
\* the priority mapping.
C11_NoLeadDropped ==
    Quiesced =>
        \A l \in Leads :
            /\ RefilledNotDialed(l) => SnapshotsOf(l) # {}
            /\ l \in hist.raceLost => PrioritySnapshotsOf(l) # {}

\* C12: every change of an agent's state row or of its membership of an
\* idle queue is made by a writer that holds the agent's lock: no agent has
\* had its membership changed with the lock not held.
C12_WritesUnderAgentLock == hist.lockless = {}

\* The call c of mark-idle, mark-busy, logout or priority-enqueue fails in
\* the current state: its lock is not acquired, or the agent has no row.
Fails(c) ==
    /\ c.op \in {"mark_idle", "mark_busy", "logout", "enqueue"}
    /\ \/ ~c.ok
       \/ c.op # "enqueue" /\ agentStates[c.agent] = NoRow

C14_LoginQueuesInTeam ==
    [][(hist'.last.op = "login" /\ hist'.last.ok)
       => LET a == hist'.last.agent
              q == idleQueue'[hist'.last.team]
          IN /\ agentStates'[a].state = "idle"
             /\ agentStates'[a].current_call_id = None
             /\ q # <<>>
             /\ q[Len(q)] = a]_vars

\* The member of queue q whose last transition to idle is the earliest.
EarliestIdle(q) ==
    LET members == SelectSeq(hist.idleOrder, LAMBDA x : SeqHas(q, x))
    IN IF members = <<>> THEN None ELSE Head(members)

C15_LoggedOutStaysOut ==
    \A a \in hist.loggedOut : agentStates[a] = NoRow /\ QueuesOf(a) = {}

\* C17: every call the secondary pass originates is a parked call, with
\* auto_bridge false, park true and the agent of the pass as X-agent_id,
\* whatever the dial multiplier of the pass, 1 included.
C17_SecondaryOriginatesParked ==
    [][\A w \in Workers :
          (tick[w].pc = "orig" /\ tick[w].pass = "secondary"
             /\ tick[w].call = None /\ tick'[w].call # None)
          => LET ch == channels'[tick'[w].call]
             IN /\ ch.state = "ringing"
                /\ ~ch.auto_bridge
                /\ ch.park
                /\ ch.agent_id = tick[w].agent]_vars

\* The agent of the acquisition campaign.
AcquisitionAgent == {NAgents}

\* A call of the acquisition pass: outbound, parked, with no X-agent_id.
AcquisitionCall(c) ==
    /\ channels[c].dir = "outbound"
    /\ channels[c].park
    /\ channels[c].agent_id = None

\* c is the only acquisition call there has been, and no other call was
\* originated for the acquisition agent or bridged to it: nothing but c
\* has asked for that agent.
PickupScenario(c) ==
    /\ AcquisitionCall(c)
    /\ \A d \in CallIds \ {c} :
          channels[d].state # "free"
          => /\ channels[d].agent_id \notin AcquisitionAgent \cup {None}
             /\ channels[d].peer \notin AcquisitionAgent

\* C18: the parked call a tick originates without X-agent_id for the idle,
\* acquisition-enabled sales agent gets an agent from the sales queue when
\* it is answered: it is not ended with NO_AVAILABLE_AGENT.
C18_AcquisitionPickup ==
    \A c \in CallIds :
        PickupScenario(c) => channels[c].cause # "NO_AVAILABLE_AGENT"

\* The payload of an active-call record: the snapshot the helper dialed.
PayloadOf(rec) ==
    [lead_id |-> rec.lead_id,
     nested |-> IF rec.lead_id # None THEN None ELSE rec.nested]

\* The handler h finishes, with the lock of the priority mapping acquired,
\* the hangup of a call that lost the race, has a record and has an agent.
RaceLossHandled(h) ==
    /\ handler[h].pc = "routine"
    /\ handler'[h].pc = "idle"
    /\ handler[h].ev.cause \in RaceLossCauses
    /\ handler[h].details # NoRec
    /\ handler[h].agent_id # None
    /\ queueLock["priority"] = 0

\* C19: the hangup of a call with cause NO_AVAILABLE_AGENT, AGENT_BUSY or
\* LOSE_RACE puts the payload of the call's record at the head of the
\* priority bucket of the call's agent; the entries that were in the bucket
\* follow it in their order, and the other buckets stay as they were.
C19_RequeuedAtHead ==
    [][\A h \in Handlers :
          RaceLossHandled(h)
          => LET a == handler[h].agent_id
             IN /\ priorityMapping'[a] =
                      <<PayloadOf(handler[h].details)>> \o priorityMapping[a]
                /\ \A k \in MappingKeys \ {a} :
                      priorityMapping'[k] = priorityMapping[k]]_vars

\* The agent of key k is not idle: it has no row, its state is not idle or
\* it has a current call.
NotIdle(k) ==
    \/ RowOf(agentStates, k) = NoRow
    \/ RowOf(agentStates, k).state # "idle"
    \/ RowOf(agentStates, k).current_call_id # None

\* C20: a turn of the priority pass for an agent that is not idle, or whose
\* lock was not acquired, does not call the helper, so no call is
\* originated, and leaves the agent's lead list as it was, in the pass's
\* copy and in the stored mapping; the end of the pass stores the lists of
\* the agents it passed over as they were.
C20_NonIdleAgentSkipped ==
    [][\A w \in Workers :
          LET t == tick[w]
          IN (t.pc = "loop" /\ t.pass = "priority" /\ tick'[w] # t)
             => IF t.todo = <<>>
                THEN \A s \in hist.skipped :
                        priorityMapping'[s[1]] = priorityMapping[s[1]]
                ELSE LET k == Head(t.todo)
                     IN (t.map[k] # <<>>
                           /\ (NotIdle(k) \/ <<k, FALSE>> \in hist'.skipped))
                        => /\ tick'[w].pc = "loop"
                           /\ tick'[w].agent = t.agent
                           /\ tick'[w].map = t.map
                           /\ channels' = channels
                           /\ priorityMapping' = priorityMapping]_vars

\* The priority pass has passed over a busy agent that has a lead in its
\* list, its lock acquired.
C20_SkippedBusyAgent ==
    \E w \in Workers, k \in Agents :
        /\ tick[w].pc = "loop"
        /\ tick[w].pass = "priority"
        /\ tick[w].map[k] # <<>>
        /\ <<k, TRUE>> \in hist.skipped
        /\ agentStates[k].state = "busy"

\* C23: the orphan reaper never marks idle an agent whose current call is
\* still live at the switch, inbound calls assigned at CHANNEL_PARK or by the
\* waiting room included.
C23_ReaperSparesLiveCalls == hist.reaped = {}

\* The step attaches the agent a to the call c: a handler or the waiting room
\* bridged or transferred the call to a.
Attaches(c, a) ==
    /\ channels'[c].peer = a
    /\ channels[c].peer # a
    /\ channels'[c].transferor = channels[c].transferor

\* C24: whenever the event handler or the waiting room bridges or transfers
\* an agent onto a call, the agent's row is busy with that call; an agent
\* whose mark-busy failed is not attached.
C24_AttachedAgentIsBusy ==
    [][\A c \in CallIds, a \in Agents :
          Attaches(c, a) => /\ agentStates'[a].state = "busy"
                            /\ agentStates'[a].current_call_id = c]_vars

\* The step handles the event of the given type at the head of the events.
Handled(type, c) ==
    /\ events # <<>>
    /\ Head(events).type = type
    /\ Head(events).uuid = c
    /\ events' = Tail(events)

Queued(q, a) == \E k \in QueueKeys : \E i \in DOMAIN q[k] : q[k][i] = a

\* The agent that had the call c transferred it to a logged-in idle agent.
CleanTransfer(c) ==
    /\ agentStates[channels[c].transferor].state = "busy"
    /\ agentStates[channels[c].transferor].current_call_id = c
    /\ agentStates[channels[c].peer].state = "idle"
    /\ Queued(idleQueue, channels[c].peer)

\* C28: when CHANNEL_EXECUTE of a transfer has been handled, the
\* transferring agent is idle and in an idle queue and the destination agent
\* is busy and in none.
C28_TransferSwapsAgents ==
    [][\A c \in CallIds :
          Handled("CHANNEL_EXECUTE", c) /\ CleanTransfer(c) =>
              /\ agentStates'[channels[c].transferor].state = "idle"
              /\ Queued(idleQueue', channels[c].transferor)
              /\ agentStates'[channels[c].peer].state = "busy"
              /\ ~Queued(idleQueue', channels[c].peer)]_vars

\* The agents whose row is busy with the call c.
BusyWith(st, c) ==
    {a \in Agents : st[a].state = "busy" /\ st[a].current_call_id = c}

\* How many times the call c is in the waiting list wq.
Waiting(wq, c) == Cardinality({i \in DOMAIN wq : wq[i] = c})

\* The call c is assigned to exactly one agent of the team, out of the idle
\* queues and busy with it, and waits nowhere.
AssignedTo(team, c) ==
    /\ \E a \in Agents : /\ BusyWith(agentStates', c) = {a}
                          /\ agentStates'[a].team = team
                          /\ Queued(idleQueue, a)
                          /\ ~Queued(idleQueue', a)
    /\ \A k \in DOMAIN waitingQueue : Waiting(waitingQueue'[k], c) = 0

\* The call c waits exactly once for the team and no agent has it.
WaitsFor(team, c) ==
    /\ BusyWith(agentStates', c) = {}
    /\ \A k \in DOMAIN waitingQueue :
          Waiting(waitingQueue'[k], c) = IF k = team THEN 1 ELSE 0

\* C29: when CHANNEL_PARK of an inbound call with ivr_choice 1 or 2 has been
\* handled, the call is assigned to exactly one agent of the chosen team,
\* popped from the idle queue and busy with it, or waits exactly once in that
\* team's waiting queue; any other choice changes no agent and no queue.
C29_ParkAssignsOrQueues ==
    [][\A c \in CallIds :
          Handled("CHANNEL_PARK", c) =>
             LET team == IF channels[c].ivr = 1 THEN "support"
                         ELSE "secondary_sales"
             IN IF channels[c].ivr \in {1, 2}
                THEN AssignedTo(team, c) \/ WaitsFor(team, c)
                ELSE UNCHANGED <<agentStates, idleQueue, waitingQueue>>]_vars

\* An agent of the team is idle and in an idle queue.
IdleOfTeam(team) ==
    \E a \in Agents : /\ agentStates[a].team = team
                      /\ agentStates[a].state = "idle"
                      /\ Queued(idleQueue, a)

\* The call c is with an agent of the team, or is over.
BridgedToTeam(team, c) ==
    \/ ~Live(channels[c])
    \/ /\ channels[c].state = "bridged"
       /\ channels[c].peer \in Agents
       /\ agentStates[channels[c].peer].team = team

\* C21: an inbound caller in a team's waiting queue is eventually bridged to
\* an agent of that team once such an agent is idle, unless the call ends
\* first.
C21_WaitingCallerBridged ==
    \A c \in CallIds, team \in {"support", "secondary_sales"} :
        (Waiting(waitingQueue[team], c) = 1 /\ IdleOfTeam(team))
            ~> BridgedToTeam(team, c)

\* The call c was originated without auto_bridge for an agent.
AssignedAnswer(c) == ~channels[c].auto_bridge /\ channels[c].agent_id # None

\* C25: on the first CHANNEL_ANSWER of an outbound call without auto_bridge
\* that carries an agent_id, the handler bridges the agent and marks it busy
\* with the call if and only if the agent is idle (state idle and no
\* current call); otherwise it kills the call with AGENT_BUSY and leaves
\* the agent as it is. A bridge that the switch refuses is left aside.
C25_BridgesOnlyIdleAgent ==
    [][\A c \in CallIds :
          Handled("CHANNEL_ANSWER", c) /\ AssignedAnswer(c) =>
             LET a == channels[c].agent_id
                 idle == /\ agentStates[a].state = "idle"
                         /\ agentStates[a].current_call_id = None
             IN IF idle
                THEN \/ /\ channels'[c].peer = a
                        /\ agentStates'[a].state = "busy"
                        /\ agentStates'[a].current_call_id = c
                     \/ channels'[c].cause = "LOSE_RACE"
                ELSE /\ channels'[c].cause = "AGENT_BUSY"
                     /\ agentStates'[a] = agentStates[a]]_vars

\* The step ends the priority pass of the worker w.
PriorityPassEnds(w) ==
    /\ tick[w].pc = "loop"
    /\ tick[w].pass = "priority"
    /\ tick[w].todo = <<>>
    /\ tick'[w].pc # "loop"

\* C26: after a priority pass that originated a call for the lead at the
\* head of an agent's bucket, the stored priority mapping holds the bucket
\* without that lead.
C26_DialedLeadLeavesMapping ==
    [][\A w \in Workers :
          PriorityPassEnds(w) =>
             \A k \in MappingKeys :
                tick[w].map[k] # priorityMapping[k] =>
                    priorityMapping'[k] = tick[w].map[k]]_vars

\* The part of the tick the worker w is in: the pass whose loop it runs, or
\* its position outside the passes.
PhaseOf(t) ==
    IF t.pc \in {"loop", "orig", "mark", "book"} THEN t.pass ELSE t.pc

\* C27: a tick that got the execution lock and found an idle agent runs the
\* priority pass, the secondary pass, the acquisition pass and the refill
\* check, in that order and all four: each is entered from the one before,
\* and the tick ends only after the refill check, or before the priority
\* pass when it did not get the lock or found no idle agent.
C27_AllPassesInOrder ==
    [][\A w \in Workers :
          PhaseOf(tick'[w]) # PhaseOf(tick[w]) =>
             CASE PhaseOf(tick'[w]) = "secondary" -> PhaseOf(tick[w]) = "priority"
               [] PhaseOf(tick'[w]) = "acquisition" -> PhaseOf(tick[w]) = "secondary"
               [] PhaseOf(tick'[w]) = "refillcheck" -> PhaseOf(tick[w]) = "acquisition"
               [] PhaseOf(tick'[w]) = "release" ->
                      PhaseOf(tick[w]) \in {"idle", "reap", "refillcheck", "refilling"}
               [] OTHER -> TRUE]_vars

\* The lead status the drain is to give for a hangup cause; "unchanged" for
\* the causes mapped to failed or cancelled and for the unmapped ones.
StatusForCause(cause) ==
    CASE cause = "NORMAL_CLEARING" -> "completed"
      [] cause \in {"USER_BUSY", "CALL_REJECTED", "NO_ANSWER", "NO_USER_RESPONSE",
                    "PROGRESS_TIMEOUT"} -> "not_answered"
      [] cause \in {"UNALLOCATED_NUMBER", "INVALID_NUMBER_FORMAT",
                    "NO_ROUTE_DESTINATION"} -> "invalid"
      [] OTHER -> "unchanged"

\* The step ends a run of sync_to_db.
DrainEnds == drains.running /\ ~drains'.running

\* C30: the drain sets the status of the lead of every record it took from
\* the fixed mapping of the hangup cause, and leaves it unchanged for the
\* other causes; stated for the leads with one record in the batch.
C30_DrainSetsMappedStatus ==
    [][DrainEnds =>
          \A i \in DOMAIN drains.batch :
             LET d == drains.batch[i]
                 alone == \A j \in DOMAIN drains.batch :
                             drains.batch[j].lead_id = d.lead_id => j = i
             IN (d.lead_id # None /\ alone) =>
                   leadStatus'[d.lead_id] =
                       IF StatusForCause(d.disconnect_reason) = "unchanged"
                       THEN leadStatus[d.lead_id]
                       ELSE StatusForCause(d.disconnect_reason)]_vars

\* The worker w is inside the pass that takes the queue lock k.
InsidePass(w, k) ==
    /\ tick[w].pc \in {"loop", "orig", "mark", "book"}
    /\ queue_lock_of(tick[w].pass) = k

C31_DrainScheduledOnlyWithoutKey ==
    [][drains'.scheduled > drains.scheduled => ~syncLock]_vars

\* C32: within one tick an agent is booked by at most one pass, and the
\* secondary pass originates at most m calls for an agent.
C32_OnePassPerAgentAndTick ==
    \A b \in hist.booked :
        /\ \A d \in hist.booked :
              (d.w = b.w /\ d.agent = b.agent) => d.pass = b.pass
        /\ b.pass = "secondary" =>
              Cardinality({d \in hist.booked :
                              d.w = b.w /\ d.agent = b.agent /\ d.pass = b.pass})
                  <= b.m

\* The stored queue a pass takes its leads from, for the agent it dials for.
StoredQueue(pass, a) ==
    CASE pass = "priority" -> priorityMapping[a]
      [] pass = "secondary" -> leadMapping.q[a]
      [] OTHER -> leadMapping.q[AcqKey]

\* C39: within one tick no lead snapshot is originated more than once by a
\* pass over the lead mapping, and a lead such a pass originated a call for
\* is no longer in its stored queue once the pass has ended.
C39_DialedOnceAndGone ==
    \A b \in hist.booked :
        b.pass # "priority" =>
            /\ \A d \in hist.booked :
                   (d.w = b.w /\ d.pass = b.pass /\ d.lead = b.lead) => d.call = b.call
            /\ tick[b.w].pass # b.pass => ~SeqHas(StoredQueue(b.pass, b.agent), b.lead)

\* Handler h ends the handling of a hangup and agent a, busy before, is idle
\* after.
HangupFrees(h, a) ==
    /\ handler[h].pc = "routine"
    /\ handler'[h].pc = "idle"
    /\ handler[h].agent_id = a
    /\ agentStates[a].state = "busy"
    /\ agentStates'[a].state = "idle"

\* The agent is connected to a call other than c that is live at the switch.
TalksOnAnother(a, c) ==
    /\ agentStates[a].current_call_id \notin {None, c}
    /\ Live(channels[agentStates[a].current_call_id])

\* C36: the handler of CHANNEL_HANGUP_COMPLETE for call c marks an agent
\* idle only if c is that agent's current call: an agent talking on another
\* live call is not marked idle by the hangup of c.
C36_HangupFreesOnlyCurrentCall ==
    [][\A h \in Handlers, a \in Agents :
          HangupFrees(h, a) => ~TalksOnAnother(a, handler[h].ev.uuid)]_vars

\* The calls live at the switch that are bridged to agent a.
BridgedTo(a) ==
    {c \in CallIds : channels[c].state = "bridged" /\ channels[c].peer = a}

\* C37: no agent is bridged onto two live calls at once, and an agent
\* connected to a live call is neither idle nor in an idle queue.
C37_OneLiveCallPerAgent ==
    \A a \in Agents :
        /\ Cardinality(BridgedTo(a)) <= 1
        /\ BridgedTo(a) # {} =>
               agentStates[a].state # "idle" /\ ~Queued(idleQueue, a)

\* The pass of the failed originate f has ended and the tick is not over.
PassOver(f) == tick[f.w].pass # f.pass

\* The originates that succeeded in the pass of the failed originate f.
SucceededWith(f) == {b \in hist.booked : b.w = f.w /\ b.pass = f.pass}

\* C34: after a pass in which an originate failed, the lead of the failed
\* originate is at the head of its stored queue unless a later originate of
\* the pass succeeded for it, and the leads of the originates of the pass
\* that succeeded are no longer in their stored queues.
C34_FailureKeepsLeadOnly ==
    \A f \in hist.failed :
        PassOver(f) =>
            /\ (\A b \in SucceededWith(f) : b.lead # f.lead) =>
                   /\ StoredQueue(f.pass, f.agent) # <<>>
                   /\ Head(StoredQueue(f.pass, f.agent)) = f.lead
            /\ \A b \in SucceededWith(f) :
                   ~SeqHas(StoredQueue(b.pass, b.agent), b.lead)

\* Lead l is in an active-call record, or in the completed-calls buffer.
InRecord(l) ==
    \E c \in CallIds : activeCalls[c] # NoRec /\ LeadOf(activeCalls[c]) = l
InBuffer(l) ==
    \E i \in DOMAIN completedCalls : LeadOf(completedCalls[i]) = l

\* Lead l is in the hands of an operation that has not ended: a refill that
\* updated it and has not merged, a hangup handler between remove_active_call
\* and call_ending_routine, a drain between its read and its writes.
InHand(l) ==
    \/ \E s \in RefillSlots : refill[s].pc = "merge" /\ l \in refill[s].sel
    \/ \E h \in Handlers :
          /\ handler[h].pc = "routine"
          /\ handler[h].details # NoRec
          /\ LeadOf(handler[h].details) = l
    \/ /\ drains.running
       /\ \E i \in DOMAIN drains.batch : LeadOf(drains.batch[i]) = l

\* C38: no lead is stranded: a lead in status in_queue is in a lead queue,
\* in an active-call record or in the completed-calls buffer, or in the
\* hands of an operation that is moving it from one to the next.
C38_NoLeadStranded ==
    \A l \in Leads :
        leadStatus[l] = "in_queue" =>
            SnapshotsOf(l) # {} \/ InRecord(l) \/ InBuffer(l) \/ InHand(l)

\* The part of bucket k that a step appends.
Appended(k) ==
    SubSeq(leadMapping'.q[k], Len(leadMapping.q[k]) + 1, Len(leadMapping'.q[k]))

\* The bucket the claim gives lead l: the shared list for a lead of an
\* acquisition campaign, else the bucket of the campaign's agent.
BucketOf(l) ==
    IF hist.camp[l].segment = "acquisition" THEN AcqKey ELSE hist.camp[l].agent

\* The place of a segment in the order follow_up, active, growth,
\* active_churn, growth_churn, acquisition.
Priority(l) ==
    CASE hist.camp[l].segment = "follow_up" -> 0
      [] hist.camp[l].segment = "active" -> 1
      [] hist.camp[l].segment = "growth" -> 2
      [] hist.camp[l].segment = "active_churn" -> 3
      [] hist.camp[l].segment = "growth_churn" -> 4
      [] OTHER -> 5

HeldBy(w) == {k \in DOMAIN queueLock : queueLock[k] = w}

\* Worker w is at a step that asks for a lock another party may hold: the
\* dialer lock at the start of a tick, a queue lock at the start of a pass.
AsksForLock(w) ==
    tick[w].pc \in {"idle", "priority", "secondary", "acquisition"}

==============================================================================
